---------------------------- MODULE Spec2Model ----------------------------
(***************************************************************************)
(* ACM-Compass: the import staging area of the Express server              *)
(* (server/src/index.ts) and the collection store it commits into          *)
(* (data.ts).  JavaScript null/undefined of a string-valued field is the   *)
(* string "null", of a staging slot the record NULL.  The fields the code   *)
(* converts (counts, labels, assignee, owner, status) hold JavaScript       *)
(* values: JSNULL, UNDEFINED, NAN, Num(n), Str(text), Arr(items), a text    *)
(* being a tuple of one-character strings.  The three unsolved stages are   *)
(* spelled in ASCII.                                                        *)
(***************************************************************************)
EXTENDS Integers, Sequences, FiniteSets, TLC

VARIABLES
    pendingProblemsData,  \* index.ts:224  staged problem batch, or NULL
    pendingContestData,   \* index.ts:204  pending contest snapshot, or NULL
    pendingImportData,    \* legacy server: its single pending slot, or NULL
    problems,             \* data/problems.json, as a sequence of records
    contests,             \* data/contests.json, as a sequence of records
    uuid,                 \* number of ids handed out by uuidv4()
    now,                  \* the clock new Date() reads
    solutions,            \* data/solutions: the ids that have a .md file
    repo,                 \* git.ts: data/, its backups and .git_config.json
    inflight,             \* per connection, the store call that has read its
                          \* file and not yet written it, or NULL
    res                   \* the response to the last request

vars == <<pendingProblemsData, pendingContestData, pendingImportData,
          problems, contests, uuid, now, solutions, repo, inflight, res>>

-----------------------------------------------------------------------------
(* Bounds *)

\* longest problem list of a submitted batch; also the number of letters a
\* standings page reports
MaxProblems == 2

\* longest problem list of a submitted contest snapshot
MaxSnapshot == 1

\* ids uuidv4() may hand out in one run
MaxUuid == 4

\* create and update requests the collection routes serve in one run
MaxWrites == 3

\* clones, pulls and restarts that give data/ new contents in one run
MaxClones == 2

\* backup directories next to data/
MaxBackups == 2

-----------------------------------------------------------------------------
(* Values *)

NULL == [null |-> TRUE]
NULLSTR == "null"

\* a collection file whose text is not a JSON array
Corrupt == <<[corrupt |-> TRUE]>>

\* JavaScript values
JSNULL == [t |-> "null"]
UNDEFINED == [t |-> "undefined"]
NAN == [t |-> "nan"]
Num(n) == [t |-> "num", n |-> n]
Str(s) == [t |-> "str", s |-> s]
Arr(a) == [t |-> "arr", a |-> a]

LETTERS == <<"A", "B", "C", "D", "E", "F", "G", "H", "I", "J", "K", "L", "M",
             "N", "O", "P", "Q", "R", "S", "T", "U", "V", "W", "X", "Y", "Z">>

STAGE_NOT_VIEWED == "not_viewed"                        \* '未看题'
STAGE_NO_IDEA == "viewed_no_idea"                       \* '已看题无思路'
STAGE_KNOWN == "approach_known_not_implemented"         \* '知道做法未实现'

VALID_UNSOLVED_STAGES == {STAGE_NOT_VIEWED, STAGE_NO_IDEA, STAGE_KNOWN}

ContestStatuses == {"ac", "attempted", "unsubmitted"}

Letters == {LETTERS[i] : i \in 1..MaxProblems}

ContestIds == {"123", "999"}

Range(s) == {s[i] : i \in 1..Len(s)}

-----------------------------------------------------------------------------
(* JavaScript operations the store applies to field values *)

\* rec[key], undefined when the key is absent
Get(rec, key) == IF key \in DOMAIN rec THEN rec[key] ELSE UNDEFINED

\* v == null
IsNullish(v) == v.t \in {"null", "undefined"}

\* the truthiness of v, as || and && test it
Truthy(v) ==
    CASE v.t = "num" -> v.n # 0
      [] v.t = "str" -> v.s # <<>>
      [] v.t = "arr" -> TRUE
      [] OTHER -> FALSE

DIGITS == <<"0", "1", "2", "3", "4", "5", "6", "7", "8", "9">>

IsDigit(c) == \E d \in 1..10 : DIGITS[d] = c

DigitVal(c) == (CHOOSE d \in 1..10 : DIGITS[d] = c) - 1

IsSpace(c) == c \in {" ", "\t", "\n"}

\* the decimal digits of a natural number
RECURSIVE NatToText(_)
NatToText(n) ==
    IF n < 10 THEN <<DIGITS[n + 1]>>
    ELSE Append(NatToText(n \div 10), DIGITS[(n % 10) + 1])

\* String(v)
String(v) ==
    CASE v.t = "str" -> v.s
      [] v.t = "num" -> IF v.n < 0 THEN <<"-">> \o NatToText(-v.n)
                        ELSE NatToText(v.n)
      [] v.t = "nan" -> <<"N", "a", "N">>
      [] v.t = "null" -> <<"n", "u", "l", "l">>
      [] v.t = "undefined" -> <<"u", "n", "d", "e", "f", "i", "n", "e", "d">>
      [] v.t = "arr" -> <<>>

\* trimStart removing one leading white-space character only
trimStartOnce(s) == IF s # <<>> /\ IsSpace(Head(s)) THEN Tail(s) ELSE s

RECURSIVE trimStart(_)
trimStart(s) == IF s # <<>> /\ IsSpace(Head(s)) THEN trimStart(Tail(s)) ELSE s

RECURSIVE trimEnd(_)
trimEnd(s) ==
    IF s # <<>> /\ IsSpace(s[Len(s)]) THEN trimEnd(SubSeq(s, 1, Len(s) - 1))
    ELSE s

\* String.prototype.trim
trim(s) == trimEnd(trimStart(s))

LOWER == <<"a", "b", "c", "d", "e", "f", "g", "h", "i", "j", "k", "l", "m",
           "n", "o", "p", "q", "r", "s", "t", "u", "v", "w", "x", "y", "z">>

\* String.prototype.toLowerCase
toLowerCase(s) ==
    [i \in 1..Len(s) |->
        IF \E k \in 1..26 : LETTERS[k] = s[i]
        THEN LOWER[CHOOSE k \in 1..26 : LETTERS[k] = s[i]]
        ELSE s[i]]

\* the number the leading digits of s spell, most significant first
RECURSIVE DigitsValue(_, _)
DigitsValue(s, acc) ==
    IF s = <<>> \/ ~IsDigit(Head(s)) THEN acc
    ELSE DigitsValue(Tail(s), 10 * acc + DigitVal(Head(s)))

\* parseInt(s, 10): leading white space, an optional sign, then the longest
\* run of digits; NaN when there is no digit
parseInt(s) ==
    LET t == trimStart(s)
        signed == t # <<>> /\ Head(t) \in {"-", "+"}
        body == IF signed THEN Tail(t) ELSE t
    IN  IF body = <<>> \/ ~IsDigit(Head(body)) THEN NAN
        ELSE IF signed /\ Head(t) = "-" THEN Num(0 - DigitsValue(body, 0))
        ELSE Num(DigitsValue(body, 0))

-----------------------------------------------------------------------------
(* Request bodies.  `fields' is the set of keys the JSON body has. *)

\* a dashboard problem as the bookmarklet builds it
DashboardProblem(letter, solved) ==
    [letter |-> letter,
     title |-> letter,
     solved |-> solved,
     unsolved_stage |-> IF solved THEN NULLSTR ELSE STAGE_NOT_VIEWED,
     unsolved_custom_label |-> JSNULL,
     pass_count |-> JSNULL,
     attempt_count |-> JSNULL]

\* the problem lists a dashboard of n problems yields: letters A.. in page
\* order, each problem marked accepted or not
ProblemListsOfLen(n) ==
    { [i \in 1..n |-> DashboardProblem(LETTERS[i], sol[i])] :
        sol \in [1..n -> BOOLEAN] }

\* the number of problems the dashboard of a contest lists: contest 123 has
\* MaxProblems problems, contest 999 a single one
ContestSize(c) == IF c = "123" THEN MaxProblems ELSE 1

\* POST /api/import_problems bodies: the dashboard scrape of a contest, and
\* bodies without contestId, without problems, or with an empty problems list
ProblemsBodies ==
    { [fields |-> {"contestId", "source", "problems"},
       contestId |-> c[1], source |-> "qoj", problems |-> c[2]] :
         c \in UNION { {<<id, ps>> : ps \in ProblemListsOfLen(ContestSize(id))} :
                         id \in ContestIds } }
    \cup
    { [fields |-> {"source", "problems"},
       contestId |-> NULLSTR, source |-> "qoj", problems |-> ps] :
         ps \in ProblemListsOfLen(1) }
    \cup
    { [fields |-> fs,
       contestId |-> c, source |-> "qoj", problems |-> <<>>] :
         c \in ContestIds,
         fs \in {{"contestId", "source"}, {"contestId", "source", "problems"}} }

\* the (pass_count, attempt_count) pairs of a standings header, at two
\* moments of a contest
StatValues ==
    {[pass_count |-> Num(5), attempt_count |-> Num(9)],
     [pass_count |-> Num(0), attempt_count |-> Num(2)]}

\* stats: a mapping from some letters to their pair
StatsMaps ==
    UNION { {[l \in ks |-> v] : v \in StatValues} : ks \in SUBSET Letters }

\* POST /api/import_standings bodies: contestId or stats may be missing
StandingsBodies ==
    { [fields |-> {"contestId", "stats"}, contestId |-> c, stats |-> st] :
         c \in ContestIds, st \in StatsMaps }
    \cup
    { [fields |-> {"stats"}, contestId |-> NULLSTR, stats |-> <<>>] }
    \cup
    { [fields |-> {"contestId"}, contestId |-> c, stats |-> <<>>] :
         c \in ContestIds }

\* a standings-page problem as the bookmarklet builds it
StandingsProblem(i, status) ==
    [letter |-> LETTERS[i], pass_count |-> Num(3), attempt_count |-> Num(4),
     my_status |-> status]

ContestProblemLists ==
    UNION { { [i \in 1..n |-> StandingsProblem(i, st[i])] :
                st \in [1..n -> ContestStatuses] } : n \in 0..MaxSnapshot }

\* whole-contest payloads {name, total_problems, problems, user_rank} as the
\* standings scrape builds them
ScrapedContests ==
    { [fields |-> {"name", "total_problems", "problems", "user_rank"},
       name |-> "Stage 1", total_problems |-> Num(Len(ps)), problems |-> ps,
       user_rank |-> "3/40"] : ps \in ContestProblemLists }

\* payloads with required keys missing: no name; no problems list; nothing
MalformedContests ==
    { [fields |-> {"total_problems", "problems"},
       name |-> NULLSTR, total_problems |-> Num(1),
       problems |-> <<StandingsProblem(1, "unsubmitted")>>,
       user_rank |-> NULLSTR],
      [fields |-> {"name"},
       name |-> "Stage 1", total_problems |-> Num(0), problems |-> <<>>,
       user_rank |-> NULLSTR],
      [fields |-> {},
       name |-> NULLSTR, total_problems |-> Num(0), problems |-> <<>>,
       user_rank |-> NULLSTR] }

\* POST /api/import_contest bodies: {data: [payload]} as the bookmarklet
\* sends it, the bare payload, or {data: []}
ContestBodies ==
    { [fields |-> {"data"}, data |-> <<cd>>] : cd \in ScrapedContests }
    \cup MalformedContests
    \cup { [fields |-> {"data"}, data |-> <<>>] }

\* the bodies of a scrape taken before the user has submitted anything
EarlyContestBodies ==
    { body \in ContestBodies :
        LET cd == IF body.fields = {"data"} /\ body.data # <<>>
                  THEN body.data[1] ELSE body
        IN  "problems" \in cd.fields =>
               \A i \in 1..Len(cd.problems) :
                  cd.problems[i].my_status = "unsubmitted" }

-----------------------------------------------------------------------------
(* Collection store (data.ts) *)

\* data.ts:202-204
solutionExists(problemId) == problemId \in solutions

\* deriveSolved comparing the status as written, without toLowerCase
deriveSolvedExact(rec) ==
    IF "solved" \in DOMAIN rec THEN rec.solved
    ELSE LET status == IF Truthy(Get(rec, "status")) THEN rec.status
                       ELSE Str(<<>>)
         IN  String(status) = <<"d", "o", "n", "e">>

\* data.ts:47-50  solved, derived from the legacy status when absent
deriveSolved(rec) ==
    IF "solved" \in DOMAIN rec THEN rec.solved
    ELSE LET status == IF Truthy(Get(rec, "status")) THEN rec.status
                       ELSE Str(<<>>)
         IN  toLowerCase(String(status)) = <<"d", "o", "n", "e">>

\* stageOf keeping whatever stage the record holds
stageOfAsStored(rec) ==
    IF "unsolved_stage" \notin DOMAIN rec THEN NULLSTR ELSE rec.unsolved_stage

\* data.ts:52-59  a stage outside the enumeration, or none, is null
stageOf(rec) ==
    IF "unsolved_stage" \notin DOMAIN rec THEN NULLSTR
    ELSE IF rec.unsolved_stage \in VALID_UNSOLVED_STAGES THEN rec.unsolved_stage
    ELSE NULLSTR

\* data.ts:63 and 84  String(v).trim() || null
trimOrNull(v) ==
    LET s == trim(String(v)) IN IF s = <<>> THEN JSNULL ELSE Str(s)

\* data.ts:61-65
labelOf(rec, solved) ==
    LET customLabel == Get(rec, "unsolved_custom_label")
    IN  IF solved THEN JSNULL
        ELSE IF IsNullish(customLabel) THEN customLabel
        ELSE trimOrNull(customLabel)

\* data.ts:67-69
tagsOf(rec) == IF IsNullish(Get(rec, "tags")) THEN Arr(<<>>) ELSE rec.tags

\* data.ts:71-77  parseInt never throws: what cannot be parsed is NaN
passCountOf(rec) ==
    IF IsNullish(Get(rec, "pass_count")) THEN rec.pass_count
    ELSE parseInt(String(rec.pass_count))

\* data.ts:44 and 79-86
assigneeOf(rec) ==
    LET owner == Get(rec, "owner")
        given == Get(rec, "assignee")
        assignee == IF IsNullish(given) /\ Truthy(owner) THEN owner ELSE given
    IN  IF IsNullish(assignee) THEN assignee ELSE trimOrNull(assignee)

\* forceSolved clearing the label only
forceSolvedLabelOnly(result) ==
    IF result.solved
    THEN [result EXCEPT !.unsolved_custom_label = JSNULL]
    ELSE result

\* data.ts:88-91  a solved record has neither stage nor label
forceSolved(result) ==
    IF result.solved
    THEN [result EXCEPT !.unsolved_stage = NULLSTR,
                        !.unsolved_custom_label = JSNULL]
    ELSE result

\* data.ts:40-94
normalizeRecord(rec) ==
    LET solved == deriveSolved(rec)
        keys == (DOMAIN rec \ {"has_solution", "owner"}) \cup
                {"solved", "unsolved_stage", "unsolved_custom_label", "tags",
                 "assignee"}
    IN  forceSolved(
            [k \in keys |->
                CASE k = "solved" -> solved
                  [] k = "unsolved_stage" -> stageOf(rec)
                  [] k = "unsolved_custom_label" -> labelOf(rec, solved)
                  [] k = "tags" -> tagsOf(rec)
                  [] k = "pass_count" -> passCountOf(rec)
                  [] k = "assignee" -> assigneeOf(rec)
                  [] OTHER -> rec[k]])

\* a load leaving the file it could not read as it is
reinitializedNot(file) == file

\* data.ts:106-108 and 265-267  the file after a load: one that could not be
\* read is rewritten as the empty array
reinitialized(file) == IF file = Corrupt THEN <<>> ELSE file

\* data.ts:96-110  every load re-normalizes every record and looks up its
\* solution file; a file that cannot be read loads as the empty list
loadProblems(file) ==
    IF file = Corrupt THEN <<>> ELSE
    [i \in 1..Len(file) |->
        LET normalized == normalizeRecord(file[i])
        IN  [has_solution |->
                 "id" \in DOMAIN normalized /\ solutionExists(normalized.id)]
            @@ normalized]

\* the fields of a record that hold JavaScript values
JSFIELDS == {"unsolved_custom_label", "pass_count", "attempt_count", "assignee",
             "owner", "status", "tags", "total_problems"}

\* JSON.stringify of a record: a key holding undefined is left out and NaN
\* is written as null
stringify(rec) ==
    [k \in {f \in DOMAIN rec : f \in JSFIELDS => rec[f] # UNDEFINED} |->
        IF k \in JSFIELDS /\ rec[k] = NAN THEN JSNULL ELSE rec[k]]

\* data.ts:112-119  the file saveProblems writes
saveProblems(items) ==
    [i \in 1..Len(items) |->
        stringify([k \in DOMAIN items[i] \ {"has_solution"} |-> items[i][k]])]

\* data.ts:125-131  the new record: the payload's own keys override the id
\* and the timestamps the store made
newProblem(data, id, time) ==
    [has_solution |-> FALSE] @@ data @@
    [id |-> id, created_at |-> time, updated_at |-> time]

\* data.ts:121-136  the file createProblem writes: the loaded records and the
\* new one
createProblem(file, data, id, time) ==
    saveProblems(Append(loadProblems(file), newProblem(data, id, time)))

\* data.ts:229  Math.max(1, Math.min(26, parseInt(String(v || 1), 10))); the
\* catch of line 230 is never entered, NaN goes through min and max
ClampTotal(v) ==
    LET parsed == parseInt(String(IF Truthy(v) THEN v ELSE Num(1)))
    IN  IF parsed = NAN THEN NAN
        ELSE IF parsed.n < 1 THEN Num(1)
        ELSE IF parsed.n > 26 THEN Num(26)
        ELSE parsed

\* data.ts:247-248  parseInt(String(v || 0), 10) || 0
countOf(v) ==
    LET parsed == parseInt(String(IF Truthy(v) THEN v ELSE Num(0)))
    IN  IF Truthy(parsed) THEN parsed ELSE Num(0)

\* data.ts:225-258
normalizeContest(rec) ==
    LET total == ClampTotal(Get(rec, "total_problems"))
        probs == IF "problems" \in DOMAIN rec THEN rec.problems ELSE <<>>
        out == [i \in 1..(IF total = NAN THEN 0 ELSE total.n) |->
                   IF i <= Len(probs)
                   THEN [letter |-> LETTERS[i],
                         pass_count |-> countOf(Get(probs[i], "pass_count")),
                         attempt_count |-> countOf(Get(probs[i], "attempt_count")),
                         my_status |->
                             IF "my_status" \in DOMAIN probs[i]
                                /\ probs[i].my_status \in ContestStatuses
                             THEN probs[i].my_status ELSE "unsubmitted"]
                   ELSE [letter |-> LETTERS[i], pass_count |-> Num(0),
                         attempt_count |-> Num(0), my_status |-> "unsubmitted"]]
    IN  [k \in DOMAIN rec \cup {"total_problems", "problems"} |->
            CASE k = "total_problems" -> total
              [] k = "problems" -> out
              [] OTHER -> rec[k]]

\* data.ts:260-269
loadContests(file) ==
    IF file = Corrupt THEN <<>>
    ELSE [i \in 1..Len(file) |-> normalizeContest(file[i])]

\* data.ts:271-273  the file saveContests writes
saveContests(items) == [i \in 1..Len(items) |-> stringify(items[i])]

\* data.ts:279-284  the record createContest makes
newContest(data, id, time) ==
    normalizeContest(
        data @@ [id |-> id, created_at |-> time, updated_at |-> time])

\* data.ts:275-289
createContest(file, data, id, time) ==
    saveContests(Append(loadContests(file), newContest(data, id, time)))

\* items.findIndex((it) => it.id === id), 0 when there is none
findIndex(items, id) ==
    LET hits == {i \in 1..Len(items) :
                    "id" \in DOMAIN items[i] /\ items[i].id = id}
    IN  IF hits = {} THEN 0
        ELSE CHOOSE i \in hits : \A j \in hits : i <= j

\* { ...item, ...data, updated_at: now }
mergeUpdate(item, data, time) == [updated_at |-> time] @@ data @@ item

\* items.filter((it) => it.id !== id)
withoutId(items, id) ==
    LET keep(it) == "id" \notin DOMAIN it \/ it.id # id
    IN  SelectSeq(items, keep)

\* data.ts:138-154  the file updateProblem writes when the id is found
updateProblem(file, problemId, data, time) ==
    LET items == loadProblems(file)
        index == findIndex(items, problemId)
    IN  saveProblems([items EXCEPT
                         ![index] = mergeUpdate(items[index], data, time)])

\* data.ts:156-166  the file deleteProblem writes when the id is found
deleteProblem(file, problemId) ==
    saveProblems(withoutId(loadProblems(file), problemId))

\* data.ts:291-306  the file updateContest writes when the id is found
updateContest(file, contestId, data, time) ==
    LET items == loadContests(file)
        index == findIndex(items, contestId)
    IN  saveContests([items EXCEPT
                         ![index] = normalizeContest(
                                        mergeUpdate(items[index], data, time))])

\* data.ts:308-317  the file deleteContest writes when the id is found
deleteContest(file, contestId) ==
    saveContests(withoutId(loadContests(file), contestId))

-----------------------------------------------------------------------------
(* Import staging area: the problem batch (index.ts:227-350) *)

Has(body, key) == key \in body.fields

\* ProblemsBodyInvalid without the test for an empty list
ProblemsBodyInvalidNoEmpty(body) ==
    \/ ~Has(body, "contestId")
    \/ ~Has(body, "problems")

\* index.ts:230  !contestId || !problems || problems.length === 0
ProblemsBodyInvalid(body) ==
    \/ ~Has(body, "contestId")
    \/ ~Has(body, "problems")
    \/ Len(body.problems) = 0

\* StagedBatch keeping the batch already staged for the same contest
StagedBatchKeepOld(body) ==
    IF pendingProblemsData # NULL /\ pendingProblemsData.contestId = body.contestId
    THEN pendingProblemsData
    ELSE [contestId |-> body.contestId, source |-> body.source,
          problems |-> body.problems]

\* index.ts:236  the batch that is cached
StagedBatch(body) ==
    [contestId |-> body.contestId, source |-> body.source,
     problems |-> body.problems]

\* POST /api/import_problems
ImportProblems(body) ==
    /\ IF ProblemsBodyInvalid(body)
       THEN /\ res' = [op |-> "import_problems", status |-> 400]
            /\ UNCHANGED pendingProblemsData
       ELSE /\ pendingProblemsData' = StagedBatch(body)
            /\ res' = [op |-> "import_problems", status |-> 200,
                       contestId |-> body.contestId,
                       problemCount |-> Len(body.problems),
                       replaced |-> IF pendingProblemsData = NULL THEN NULLSTR
                                    ELSE pendingProblemsData.contestId]
    /\ UNCHANGED <<pendingContestData, pendingImportData, repo, inflight, problems, contests, uuid, now, solutions>>

\* StandingsRejection without the comparison of the contest ids
StandingsRejectionNoMismatch(body, pending) ==
    IF ~Has(body, "contestId") THEN "missing_contest_id"
    ELSE IF pending = NULL THEN "nothing_staged"
    ELSE "none"

\* index.ts:255-276  the three rejections, in the order the handler tests them
StandingsRejection(body, pending) ==
    IF ~Has(body, "contestId") THEN "missing_contest_id"
    ELSE IF pending = NULL THEN "nothing_staged"
    ELSE IF pending.contestId # body.contestId THEN "contest_id_mismatch"
    ELSE "none"

\* MergeStats writing pass_count only
MergeStatsPassOnly(ps, stats) ==
    [i \in 1..Len(ps) |->
        IF ps[i].letter \in DOMAIN stats
        THEN [ps[i] EXCEPT !.pass_count = stats[ps[i].letter].pass_count]
        ELSE ps[i]]

\* index.ts:280-287  the forEach over the staged problems
MergeStats(ps, stats) ==
    [i \in 1..Len(ps) |->
        IF ps[i].letter \in DOMAIN stats
        THEN [ps[i] EXCEPT !.pass_count = stats[ps[i].letter].pass_count,
                           !.attempt_count = stats[ps[i].letter].attempt_count]
        ELSE ps[i]]

\* index.ts:279-287  mergedCount
MergedCount(ps, stats) ==
    Cardinality({i \in 1..Len(ps) : ps[i].letter \in DOMAIN stats})

\* POST /api/import_standings.  With stats missing, stats[problem.letter]
\* throws on the first staged problem: asyncHandler passes the error on and
\* the error handler answers 500; nothing has been written by then.
ImportStandings(body) ==
    /\ LET why == StandingsRejection(body, pendingProblemsData) IN
       IF why # "none"
       THEN /\ res' = [op |-> "import_standings", status |-> 400, error |-> why]
            /\ UNCHANGED pendingProblemsData
       ELSE IF ~Has(body, "stats")
       THEN /\ res' = [op |-> "import_standings", status |-> 500,
                       error |-> "TypeError"]
            /\ UNCHANGED pendingProblemsData
       ELSE /\ pendingProblemsData' =
                  [pendingProblemsData EXCEPT
                      !.problems = MergeStats(@, body.stats)]
            /\ res' = [op |-> "import_standings", status |-> 200,
                       contestId |-> body.contestId,
                       mergedCount |->
                           MergedCount(pendingProblemsData.problems, body.stats),
                       totalCount |-> Len(pendingProblemsData.problems)]
    /\ UNCHANGED <<pendingContestData, pendingImportData, repo, inflight, problems, contests, uuid, now, solutions>>

\* GET /api/pending_problems
GetPendingProblems ==
    /\ res' = [op |-> "get_pending_problems", status |-> 200,
               data |-> pendingProblemsData]
    /\ UNCHANGED <<pendingProblemsData, pendingContestData, pendingImportData, repo, inflight,
                   problems, contests, uuid, now, solutions>>

\* ClearPendingProblems answering without discarding the batch
ClearPendingProblemsKeep ==
    /\ res' = [op |-> "clear_pending_problems", status |-> 200]
    /\ UNCHANGED <<pendingProblemsData, pendingContestData, pendingImportData, repo, inflight,
                   problems, contests, uuid, now, solutions>>

\* DELETE /api/pending_problems
ClearPendingProblems ==
    /\ pendingProblemsData' = NULL
    /\ res' = [op |-> "clear_pending_problems", status |-> 200]
    /\ UNCHANGED <<pendingContestData, pendingImportData, repo, inflight, problems, contests, uuid, now, solutions>>

-----------------------------------------------------------------------------
(* Import staging area: the contest snapshot (index.ts:352-383, 480-484) *)

\* index.ts:356-360  body.data[0] when body.data is a non-empty array
ContestDataOf(body) ==
    IF Has(body, "data") /\ Len(body.data) > 0 THEN body.data[1] ELSE body

\* POST /api/import_contest
ImportContest(body) ==
    /\ pendingContestData' = ContestDataOf(body)
    /\ res' = [op |-> "import_contest", status |-> 200]
    /\ UNCHANGED <<pendingProblemsData, pendingImportData, repo, inflight, problems, contests, uuid, now, solutions>>

\* GET /api/pending_import
GetPendingImport ==
    /\ res' = [op |-> "get_pending_import", status |-> 200,
               data |-> pendingContestData]
    /\ UNCHANGED <<pendingProblemsData, pendingContestData, pendingImportData, repo, inflight,
                   problems, contests, uuid, now, solutions>>

\* ClearPendingImport discarding the staged problem batch as well
ClearPendingImportBoth ==
    /\ pendingContestData' = NULL
    /\ pendingProblemsData' = NULL
    /\ res' = [op |-> "clear_pending_import", status |-> 200]
    /\ UNCHANGED <<pendingImportData, repo, inflight, problems, contests, uuid, now, solutions>>

\* DELETE /api/pending_import
ClearPendingImport ==
    /\ pendingContestData' = NULL
    /\ res' = [op |-> "clear_pending_import", status |-> 200]
    /\ UNCHANGED <<pendingProblemsData, pendingImportData, repo, inflight, problems, contests, uuid, now, solutions>>

-----------------------------------------------------------------------------
(* Confirm: committing staged data to the collection store *)

\* importLoop giving up at the first item whose createProblem throws
RECURSIVE importLoopAbort(_, _, _, _, _, _)
importLoopAbort(file, ps, fails, i, id0, t0) ==
    IF i > Len(ps) \/ i \in fails THEN file
    ELSE importLoopAbort(createProblem(file, ps[i], id0 + i, t0 + i - 1),
                         ps, fails, i + 1, id0, t0)

\* index.ts:320-328 and 433-454  the for loop over the staged problems, from
\* item i on: createProblem for each, an item in `fails' being one whose
\* createProblem throws (the write of problems.json fails) and is caught
RECURSIVE importLoop(_, _, _, _, _, _)
importLoop(file, ps, fails, i, id0, t0) ==
    IF i > Len(ps) THEN file
    ELSE importLoop(IF i \in fails THEN file
                    ELSE createProblem(file, ps[i], id0 + i, t0 + i - 1),
                    ps, fails, i + 1, id0, t0)

FailCount(ps, fails) == Cardinality(fails \cap (1..Len(ps)))

\* ConfirmImportProblems leaving the committed batch staged
ConfirmImportProblemsKeep(fails) ==
    /\ IF pendingProblemsData = NULL
       THEN /\ fails = {}
            /\ res' = [op |-> "confirm_import_problems", status |-> 400]
            /\ UNCHANGED <<pendingProblemsData, problems, uuid, now>>
       ELSE LET ps == pendingProblemsData.problems IN
            /\ uuid + Len(ps) <= MaxUuid
            /\ fails \subseteq 1..Len(ps)
            /\ problems' = importLoop(problems, ps, fails, 1, uuid, now)
            /\ uuid' = uuid + Len(ps)
            /\ now' = now + Len(ps)
            /\ UNCHANGED pendingProblemsData
            /\ res' = [op |-> "confirm_import_problems", status |-> 200,
                       staged |-> pendingProblemsData,
                       snapshot |-> NULL,
                       failed |-> fails,
                       contest |-> "absent",
                       successCount |-> Len(ps) - FailCount(ps, fails),
                       failCount |-> FailCount(ps, fails)]
    /\ UNCHANGED <<pendingContestData, pendingImportData, repo, inflight, contests, solutions>>

\* POST /api/confirm_import_problems
ConfirmImportProblems(fails) ==
    /\ IF pendingProblemsData = NULL
       THEN /\ fails = {}
            /\ res' = [op |-> "confirm_import_problems", status |-> 400]
            /\ UNCHANGED <<pendingProblemsData, problems, uuid, now>>
       ELSE LET ps == pendingProblemsData.problems IN
            /\ uuid + Len(ps) <= MaxUuid
            /\ fails \subseteq 1..Len(ps)
            /\ problems' = importLoop(problems, ps, fails, 1, uuid, now)
            /\ uuid' = uuid + Len(ps)
            /\ now' = now + Len(ps)
            /\ pendingProblemsData' = NULL
            /\ res' = [op |-> "confirm_import_problems", status |-> 200,
                       staged |-> pendingProblemsData,
                       snapshot |-> NULL,
                       failed |-> fails,
                       contest |-> "absent",
                       successCount |-> Len(ps) - FailCount(ps, fails),
                       failCount |-> FailCount(ps, fails)]
    /\ UNCHANGED <<pendingContestData, pendingImportData, repo, inflight, contests, solutions>>

\* index.ts:392-398  letter -> my_status of the pending snapshot; a later
\* entry of a letter replaces an earlier one
contestStatusMap(snapshot) ==
    IF snapshot = NULL \/ ~Has(snapshot, "problems") THEN <<>>
    ELSE LET ps == snapshot.problems
             last(l) == CHOOSE i \in 1..Len(ps) :
                            /\ ps[i].letter = l
                            /\ \A j \in (i + 1)..Len(ps) : ps[j].letter # l
         IN  [l \in {ps[i].letter : i \in 1..Len(ps)} |-> ps[last(l)].my_status]

\* Backfill treating an attempted problem like an unsubmitted one
BackfillAcOnly(problem, statusMap) ==
    IF problem.letter \in DOMAIN statusMap /\ statusMap[problem.letter] = "ac"
    THEN [problem EXCEPT !.solved = TRUE, !.unsolved_stage = NULLSTR]
    ELSE problem

\* index.ts:436-446  my_status of the problem's letter decides solved and stage
Backfill(problem, statusMap) ==
    LET contestStatus == IF problem.letter \in DOMAIN statusMap
                         THEN statusMap[problem.letter] ELSE "undefined"
    IN  IF contestStatus = "ac"
        THEN [problem EXCEPT !.solved = TRUE, !.unsolved_stage = NULLSTR]
        ELSE IF contestStatus = "attempted"
        THEN [problem EXCEPT !.solved = FALSE, !.unsolved_stage = STAGE_KNOWN]
        ELSE problem

\* index.ts:403-409
ContestInputOf(snapshot) ==
    [name |-> IF Has(snapshot, "name") THEN snapshot.name ELSE "",
     total_problems |->
         IF Has(snapshot, "total_problems") /\ Truthy(snapshot.total_problems)
         THEN snapshot.total_problems ELSE Num(0),
     problems |-> IF Has(snapshot, "problems") THEN snapshot.problems ELSE <<>>,
     rank_str |->
         IF Has(snapshot, "user_rank") THEN snapshot.user_rank ELSE NULLSTR,
     summary |-> NULLSTR]

\* index.ts:401  the number of ids the contest half draws
ContestCalls == IF pendingContestData = NULL THEN 0 ELSE 1

\* POST /api/confirm_import_contest.  contestFails: createContest throws (the
\* write of contests.json fails); fails: as in importLoop.
ConfirmImportContest(contestFails, fails) ==
    LET statusMap == contestStatusMap(pendingContestData)
        ps == IF pendingProblemsData = NULL THEN <<>>
              ELSE [i \in 1..Len(pendingProblemsData.problems) |->
                       Backfill(pendingProblemsData.problems[i], statusMap)]
    IN
    /\ uuid + ContestCalls + Len(ps) <= MaxUuid
    /\ fails \subseteq 1..Len(ps)
    /\ contestFails => pendingContestData # NULL
    \* 1. the contest
    /\ contests' = IF pendingContestData = NULL \/ contestFails THEN contests
                   ELSE createContest(contests, ContestInputOf(pendingContestData),
                                      uuid + 1, now)
    /\ pendingContestData' = NULL
    \* 2. the problems
    /\ problems' = importLoop(problems, ps, fails, 1, uuid + ContestCalls,
                              now + ContestCalls)
    /\ pendingProblemsData' = NULL
    /\ uuid' = uuid + ContestCalls + Len(ps)
    /\ now' = now + ContestCalls + Len(ps)
    /\ res' = IF pendingContestData = NULL /\ pendingProblemsData = NULL
              THEN [op |-> "confirm_import_contest", status |-> 400]
              ELSE [op |-> "confirm_import_contest", status |-> 200,
                    staged |-> pendingProblemsData,
                    snapshot |-> pendingContestData,
                    failed |-> fails,
                    contest |-> IF pendingContestData = NULL THEN "absent"
                                ELSE IF contestFails THEN "failure"
                                ELSE "success",
                    successCount |-> Len(ps) - FailCount(ps, fails),
                    failCount |-> FailCount(ps, fails)]
    /\ UNCHANGED <<pendingImportData, repo, inflight, solutions>>

-----------------------------------------------------------------------------
(* Collection routes (index.ts:85-187) *)

\* the ids a request names: ids the store hands out and one it never does
TargetIds == {1, 2, 9}

\* POST /api/problems bodies: the form's payload for an unsolved and for a
\* solved problem, a payload carrying id and timestamps, a bare title
ProblemPayloads ==
    { [title |-> "P", tags |-> Arr(<<>>), solved |-> FALSE,
       unsolved_stage |-> STAGE_NO_IDEA,
       unsolved_custom_label |-> Str(<<"w", "i", "p">>)],
      [title |-> "P", tags |-> Arr(<<>>), solved |-> TRUE,
       unsolved_stage |-> STAGE_NO_IDEA,
       unsolved_custom_label |-> Str(<<"w", "i", "p">>)],
      [title |-> "P", tags |-> Arr(<<>>), solved |-> FALSE,
       id |-> 1, created_at |-> 0],
      [title |-> "Q"] }

\* PUT /api/problems/:id bodies
ProblemUpdates ==
    { [solved |-> TRUE],
      [unsolved_stage |-> STAGE_KNOWN],
      [id |-> 9] }

\* POST /api/problems
CreateProblem(data) ==
    /\ uuid < MaxUuid
    /\ now < MaxWrites
    /\ problems' = createProblem(problems, data, uuid + 1, now)
    /\ uuid' = uuid + 1
    /\ now' = now + 1
    /\ res' = [op |-> "create_problem", status |-> 201, body |-> data,
               data |-> newProblem(data, uuid + 1, now)]
    /\ UNCHANGED <<pendingProblemsData, pendingContestData, pendingImportData, repo, inflight,
                   contests, solutions>>

\* PUT /api/problems/:id
UpdateProblem(id, data) ==
    LET items == loadProblems(problems)
        index == findIndex(items, id)
    IN
    /\ IF index = 0
       THEN /\ res' = [op |-> "update_problem", status |-> 404, id |-> id]
            /\ problems' = reinitialized(problems)
            /\ UNCHANGED now
       ELSE /\ now < MaxWrites
            /\ problems' = updateProblem(problems, id, data, now)
            /\ now' = now + 1
            /\ res' = [op |-> "update_problem", status |-> 200, id |-> id,
                       body |-> data, index |-> index,
                       data |-> [mergeUpdate(items[index], data, now) EXCEPT
                                    !.has_solution = solutionExists(id)]]
    /\ UNCHANGED <<pendingProblemsData, pendingContestData, pendingImportData, repo, inflight,
                   contests, uuid, solutions>>

\* deleteProblem removing the solution file before it looks for the id
DeleteProblemEager(id) ==
    /\ IF findIndex(loadProblems(problems), id) = 0
       THEN /\ res' = [op |-> "delete_problem", status |-> 404, id |-> id]
            /\ problems' = reinitialized(problems)
       ELSE /\ problems' = deleteProblem(problems, id)
            /\ res' = [op |-> "delete_problem", status |-> 204, id |-> id]
    /\ solutions' = solutions \ {id}
    /\ UNCHANGED <<pendingProblemsData, pendingContestData, pendingImportData, repo, inflight,
                   contests, uuid, now>>

\* deleteProblem leaving the solution file in place
DeleteProblemKeepSolution(id) ==
    /\ IF findIndex(loadProblems(problems), id) = 0
       THEN /\ res' = [op |-> "delete_problem", status |-> 404, id |-> id]
            /\ problems' = reinitialized(problems)
       ELSE /\ problems' = deleteProblem(problems, id)
            /\ res' = [op |-> "delete_problem", status |-> 204, id |-> id]
    /\ UNCHANGED <<pendingProblemsData, pendingContestData, pendingImportData, repo, inflight,
                   contests, uuid, now, solutions>>

\* DELETE /api/problems/:id
DeleteProblem(id) ==
    /\ IF findIndex(loadProblems(problems), id) = 0
       THEN /\ res' = [op |-> "delete_problem", status |-> 404, id |-> id]
            /\ problems' = reinitialized(problems)
            /\ UNCHANGED solutions
       ELSE /\ problems' = deleteProblem(problems, id)
            /\ solutions' = solutions \ {id}
            /\ res' = [op |-> "delete_problem", status |-> 204, id |-> id]
    /\ UNCHANGED <<pendingProblemsData, pendingContestData, pendingImportData, repo, inflight,
                   contests, uuid, now>>

\* GET /api/problems
GetProblems ==
    /\ res' = [op |-> "get_problems", status |-> 200,
               data |-> loadProblems(problems)]
    /\ problems' = reinitialized(problems)
    /\ UNCHANGED <<pendingProblemsData, pendingContestData, pendingImportData, repo, inflight,
                   contests, uuid, now, solutions>>

\* the texts a solution is saved with: empty, white space only, Markdown
SolutionTexts == {<<>>, <<" ", "\n">>, <<"#">>}

\* the ids a client can name: those the store has handed out (a uuid cannot
\* be guessed before it is made) and strings the store never hands out
KnownId(id) == id <= uuid \/ id > MaxUuid

\* PUT /api/problems/:id/solution: the file is written whatever the content,
\* and whether or not the collection has a problem of that id
WriteSolution(id, content) ==
    /\ KnownId(id)
    /\ solutions' = solutions \cup {id}
    /\ res' = [op |-> "write_solution", status |-> 200, id |-> id,
               content |-> content]
    /\ UNCHANGED <<pendingProblemsData, pendingContestData, pendingImportData, repo, inflight,
                   problems, contests, uuid, now>>

\* DELETE /api/problems/:id/solution
DeleteSolution(id) ==
    /\ KnownId(id)
    /\ solutions' = solutions \ {id}
    /\ res' = [op |-> "delete_solution", status |-> 204, id |-> id]
    /\ UNCHANGED <<pendingProblemsData, pendingContestData, pendingImportData, repo, inflight,
                   problems, contests, uuid, now>>

\* ProblemsPage.tsx:115-126  the payload the problem form builds
FormData ==
    {d \in ProblemPayloads :
        "unsolved_custom_label" \in DOMAIN d /\ ~d.solved /\ "id" \notin DOMAIN d}

\* SubmitEdit saving the text whenever it is not the empty string
SubmitEditNoTrim(id, data, solution) ==
    LET index == findIndex(loadProblems(problems), id) IN
    /\ KnownId(id)
    /\ IF index = 0
       THEN /\ res' = [op |-> "submit_edit", status |-> 404, id |-> id,
                       solution |-> solution, had |-> solutionExists(id)]
            /\ problems' = reinitialized(problems)
            /\ UNCHANGED <<now, solutions>>
       ELSE /\ now < MaxWrites
            /\ problems' = updateProblem(problems, id, data, now)
            /\ now' = now + 1
            /\ solutions' = IF solution # <<>> THEN solutions \cup {id}
                            ELSE solutions \ {id}
            /\ res' = [op |-> "submit_edit", status |-> 200, id |-> id,
                       solution |-> solution, had |-> solutionExists(id)]
    /\ UNCHANGED <<pendingProblemsData, pendingContestData, pendingImportData, repo, inflight,
                   contests, uuid>>

\* ProblemsPage.tsx:128-136  saving the form of an existing problem: the
\* update, then the trimmed text is saved, or the solution deleted when the
\* text is blank; a failed update (404) ends the handler in its catch
SubmitEdit(id, data, solution) ==
    LET index == findIndex(loadProblems(problems), id) IN
    /\ KnownId(id)
    /\ IF index = 0
       THEN /\ res' = [op |-> "submit_edit", status |-> 404, id |-> id,
                       solution |-> solution, had |-> solutionExists(id)]
            /\ problems' = reinitialized(problems)
            /\ UNCHANGED <<now, solutions>>
       ELSE /\ now < MaxWrites
            /\ problems' = updateProblem(problems, id, data, now)
            /\ now' = now + 1
            /\ solutions' = IF trim(solution) # <<>> THEN solutions \cup {id}
                            ELSE solutions \ {id}
            /\ res' = [op |-> "submit_edit", status |-> 200, id |-> id,
                       solution |-> solution, had |-> solutionExists(id)]
    /\ UNCHANGED <<pendingProblemsData, pendingContestData, pendingImportData, repo, inflight,
                   contests, uuid>>

\* POST /api/contests bodies: the form's payload, with more entries than
\* total_problems, with fewer, and with a total_problems that is no number
ContestPayloads ==
    { [name |-> "Stage 1", total_problems |-> tp,
       problems |-> <<[letter |-> "B", pass_count |-> Num(3),
                       attempt_count |-> Num(4), my_status |-> "ac"],
                      [letter |-> "A", pass_count |-> Num(3),
                       attempt_count |-> Num(4), my_status |-> "attempted"]>>,
       rank_str |-> NULLSTR, summary |-> NULLSTR] :
         tp \in {Num(1), Num(3), Num(0), Num(30), Str(<<"2">>),
                 Str(<<"a", "b", "c">>)} }

\* PUT /api/contests/:id bodies
ContestUpdates ==
    { [total_problems |-> Num(2)],
      [name |-> "Stage 2"],
      [total_problems |-> Str(<<"x">>)] }

\* POST /api/contests
CreateContest(data) ==
    /\ uuid < MaxUuid
    /\ now < MaxWrites
    /\ contests' = createContest(contests, data, uuid + 1, now)
    /\ uuid' = uuid + 1
    /\ now' = now + 1
    /\ res' = [op |-> "create_contest", status |-> 201, body |-> data,
               data |-> newContest(data, uuid + 1, now)]
    /\ UNCHANGED <<pendingProblemsData, pendingContestData, pendingImportData, repo, inflight,
                   problems, solutions>>

\* PUT /api/contests/:id
UpdateContest(id, data) ==
    LET items == loadContests(contests)
        index == findIndex(items, id)
    IN
    /\ IF index = 0
       THEN /\ res' = [op |-> "update_contest", status |-> 404, id |-> id]
            /\ contests' = reinitialized(contests)
            /\ UNCHANGED now
       ELSE /\ now < MaxWrites
            /\ contests' = updateContest(contests, id, data, now)
            /\ now' = now + 1
            /\ res' = [op |-> "update_contest", status |-> 200, id |-> id,
                       body |-> data, index |-> index,
                       data |-> normalizeContest(
                                    mergeUpdate(items[index], data, now))]
    /\ UNCHANGED <<pendingProblemsData, pendingContestData, pendingImportData, repo, inflight,
                   problems, uuid, solutions>>

\* DELETE /api/contests/:id
DeleteContest(id) ==
    /\ IF findIndex(loadContests(contests), id) = 0
       THEN /\ res' = [op |-> "delete_contest", status |-> 404, id |-> id]
            /\ contests' = reinitialized(contests)
       ELSE /\ contests' = deleteContest(contests, id)
            /\ res' = [op |-> "delete_contest", status |-> 204, id |-> id]
    /\ UNCHANGED <<pendingProblemsData, pendingContestData, pendingImportData, repo, inflight,
                   problems, uuid, now, solutions>>

\* GET /api/contests
GetContests ==
    /\ res' = [op |-> "get_contests", status |-> 200,
               data |-> loadContests(contests)]
    /\ contests' = reinitialized(contests)
    /\ UNCHANGED <<pendingProblemsData, pendingContestData, pendingImportData, repo, inflight,
                   problems, uuid, now, solutions>>

-----------------------------------------------------------------------------
(* The earlier copy of the server (src/unnamed/part_008): one pending slot *)

\* POST /api/import_contest of the earlier server
LegacyImportContest(body) ==
    /\ pendingImportData' = ContestDataOf(body)
    /\ res' = [op |-> "import_contest", status |-> 200, server |-> "legacy"]
    /\ UNCHANGED <<pendingProblemsData, pendingContestData, repo, inflight, problems, contests,
                   uuid, now, solutions>>

\* GET /api/pending_import of the earlier server: the slot is emptied when read
LegacyGetPendingImport ==
    /\ res' = [op |-> "get_pending_import", status |-> 200,
               data |-> pendingImportData, server |-> "legacy"]
    /\ pendingImportData' = NULL
    /\ UNCHANGED <<pendingProblemsData, pendingContestData, repo, inflight, problems, contests,
                   uuid, now, solutions>>

-----------------------------------------------------------------------------
(* Version control of data/ (git.ts).  A directory is a record: its kind    *)
(* ("dir" without a .git of its own, "repo" with one), the origin of a repo  *)
(* and a number standing for what the directory holds.  repo.backups maps n  *)
(* to the directory named data.backup (n = 0) or data.backup.n.              *)

\* no data/ directory
NoData == [kind |-> "none"]

\* git.ts:49  the configuration when .git_config.json is absent
NoConfig == [repo_url |-> <<>>, branch |-> "main", cloned |-> FALSE]

\* the repository addresses a request names: none, blank, two remotes
RepoUrls == {<<>>, <<" ">>, <<"a">>, <<"b">>}

Branches == {"main", "dev"}

\* data.ts:19-34  data/ as ensureDataStructure leaves it at start-up
StartRepo ==
    [data |-> [kind |-> "dir", content |-> 0], backups |-> <<>>,
     config |-> NoConfig, clones |-> 0]

\* git.ts:62-76
isDataGitRepo(r) == r.data.kind = "repo"

\* git.ts:78-82
getRemoteUrl(r) == IF isDataGitRepo(r) THEN trim(r.data.remote) ELSE <<>>

\* git.ts:52-60
saveGitConfig(r, repoUrl, branch) ==
    [r EXCEPT !.config = [repo_url |-> trim(repoUrl), branch |-> branch,
                          cloned |-> TRUE]]

\* git.ts:93-98  the first of data.backup, data.backup.1, data.backup.2, ...
\* that does not exist
freeBackup(r) ==
    CHOOSE n \in 0..Cardinality(DOMAIN r.backups) :
        /\ n \notin DOMAIN r.backups
        /\ \A m \in 0..(n - 1) : m \in DOMAIN r.backups

\* backupExistingData always renaming to data.backup
backupOverName(r) ==
    IF r.data = NoData THEN r
    ELSE [r EXCEPT !.backups = (0 :> r.data) @@ r.backups, !.data = NoData]

\* git.ts:90-102  data/ is renamed to the first free backup name
backupExistingData(r) ==
    IF r.data = NoData THEN r
    ELSE [r EXCEPT !.backups = (freeBackup(r) :> r.data) @@ r.backups,
                   !.data = NoData]

\* cloneAttempts trying the default branch again after it failed
cloneAttemptsAgain(ok1, ok2) ==
    IF ok1 THEN <<[cmd |-> "clone_branch", op |-> "clone", returncode |-> 0]>>
    ELSE IF ok2
    THEN <<[cmd |-> "clone_branch", op |-> "clone", returncode |-> 1],
           [cmd |-> "clone_default", op |-> "clone", returncode |-> 0]>>
    ELSE <<[cmd |-> "clone_branch", op |-> "clone", returncode |-> 1],
           [cmd |-> "clone_default", op |-> "clone", returncode |-> 1],
           [cmd |-> "clone_default", op |-> "clone", returncode |-> 1]>>

\* git.ts:143-158  the git clone commands run: with --branch, and when that
\* fails once more without
cloneAttempts(ok1, ok2) ==
    IF ok1 THEN <<[cmd |-> "clone_branch", op |-> "clone", returncode |-> 0]>>
    ELSE <<[cmd |-> "clone_branch", op |-> "clone", returncode |-> 1],
           [cmd |-> "clone_default", op |-> "clone",
            returncode |-> IF ok2 THEN 0 ELSE 1]>>

\* git.ts:104-167  cloneDataRepo on the directories r: the directories
\* afterwards, the commands run and the kind of transcript returned
cloneDataRepo(r, repoUrl, branch, ok1, ok2) ==
    IF trim(repoUrl) = <<>>
    THEN [repo |-> r, cmds |-> <<>>, outcome |-> "invalid"]
    ELSE IF r.data # NoData /\ isDataGitRepo(r)
    THEN IF getRemoteUrl(r) = trim(repoUrl)
         THEN [repo |-> saveGitConfig(r, repoUrl, branch), cmds |-> <<>>,
               outcome |-> "already"]
         ELSE [repo |-> r, cmds |-> <<>>, outcome |-> "different"]
    ELSE LET backed == backupExistingData(r)
             cmds == cloneAttempts(ok1, ok2)
         IN  IF cmds[Len(cmds)].returncode # 0
             THEN [repo |-> backed, cmds |-> cmds, outcome |-> "failed"]
             ELSE [repo |-> saveGitConfig(
                                [backed EXCEPT
                                    !.data = [kind |-> "repo",
                                              remote |-> repoUrl,
                                              content |-> r.clones + 1],
                                    !.clones = r.clones + 1],
                                repoUrl, branch),
                   cmds |-> cmds, outcome |-> "cloned"]

\* git.ts:305-316
backupAndReclone(r, repoUrl, branch, ok1, ok2) ==
    cloneDataRepo(backupExistingData(r), repoUrl, branch, ok1, ok2)

\* git.ts:205-253  the commands gitPush runs: add, diff, commit, push, and
\* when the push fails push -u.  The exit code of the diff is not looked at:
\* a diff that fails prints nothing and reads as no changes.
pushCommands(okAdd, okDiff, changed, okCommit, okPush, okPushU) ==
    IF ~okAdd THEN <<[cmd |-> "add", op |-> "add", returncode |-> 1]>>
    ELSE LET add == <<[cmd |-> "add", op |-> "add", returncode |-> 0],
                      [cmd |-> "diff", op |-> "diff",
                       returncode |-> IF okDiff THEN 0 ELSE 1]>>
         IN  IF ~okDiff \/ ~changed THEN add
             ELSE IF ~okCommit
             THEN add \o <<[cmd |-> "commit", op |-> "commit", returncode |-> 1]>>
             ELSE add \o
                  <<[cmd |-> "commit", op |-> "commit", returncode |-> 0]>> \o
                  (IF okPush
                   THEN <<[cmd |-> "push", op |-> "push", returncode |-> 0]>>
                   ELSE <<[cmd |-> "push", op |-> "push", returncode |-> 1],
                          [cmd |-> "push_u", op |-> "push",
                           returncode |-> IF okPushU THEN 0 ELSE 1]>>)

\* git.ts:208-253  the kind of transcript gitPush returns
pushOutcome(cmds) ==
    LET last == cmds[Len(cmds)] IN
    IF last.cmd = "diff" THEN "nothing"
    ELSE IF last.returncode # 0 THEN "failed"
    ELSE "pushed"

\* POST /api/git/clone
GitClone(repoUrl, branch, ok1, ok2) ==
    LET done == cloneDataRepo(repo, repoUrl, branch, ok1, ok2) IN
    /\ done.repo.clones <= MaxClones
    /\ Cardinality(DOMAIN done.repo.backups) <= MaxBackups
    /\ repo' = done.repo
    /\ res' = [op |-> "git_clone", status |-> 200, url |-> repoUrl,
               cmds |-> done.cmds, outcome |-> done.outcome]
    /\ UNCHANGED <<pendingProblemsData, pendingContestData, pendingImportData,
                   inflight, problems, contests, uuid, now, solutions>>

\* POST /api/git/backup-reclone
GitBackupReclone(repoUrl, branch, ok1, ok2) ==
    LET done == backupAndReclone(repo, repoUrl, branch, ok1, ok2) IN
    /\ done.repo.clones <= MaxClones
    /\ Cardinality(DOMAIN done.repo.backups) <= MaxBackups
    /\ repo' = done.repo
    /\ res' = [op |-> "git_backup_reclone", status |-> 200, url |-> repoUrl,
               cmds |-> done.cmds, outcome |-> done.outcome]
    /\ UNCHANGED <<pendingProblemsData, pendingContestData, pendingImportData,
                   inflight, problems, contests, uuid, now, solutions>>

\* POST /api/git/pull (git.ts:169-192)
GitPull(ok) ==
    /\ IF ~isDataGitRepo(repo)
       THEN /\ ok
            /\ res' = [op |-> "git_pull", status |-> 200, cmds |-> <<>>,
                       outcome |-> "not_repo"]
            /\ UNCHANGED repo
       ELSE /\ ok => repo.clones < MaxClones
            /\ repo' = IF ok
                       THEN [repo EXCEPT !.data.content = repo.clones + 1,
                                         !.clones = repo.clones + 1]
                       ELSE repo
            /\ res' = [op |-> "git_pull", status |-> 200,
                       cmds |-> <<[cmd |-> "pull", op |-> "pull",
                                   returncode |-> IF ok THEN 0 ELSE 1]>>,
                       outcome |-> IF ok THEN "pulled" ELSE "failed"]
    /\ UNCHANGED <<pendingProblemsData, pendingContestData, pendingImportData,
                   inflight, problems, contests, uuid, now, solutions>>

\* POST /api/git/push (git.ts:194-256); oks: the exit of add, diff, commit,
\* push and push -u, and whether the diff lists a file
GitPush(oks) ==
    /\ IF ~isDataGitRepo(repo)
       THEN /\ oks = [c \in DOMAIN oks |-> TRUE]
            /\ res' = [op |-> "git_push", status |-> 200, cmds |-> <<>>,
                       outcome |-> "not_repo"]
       ELSE LET cmds == pushCommands(oks.add, oks.diff, oks.changed,
                                     oks.commit, oks.push, oks.push_u)
            IN  res' = [op |-> "git_push", status |-> 200, cmds |-> cmds,
                        outcome |-> pushOutcome(cmds)]
    /\ UNCHANGED <<pendingProblemsData, pendingContestData, pendingImportData,
                   repo, inflight, problems, contests, uuid, now, solutions>>

\* the exits of the commands of one push
PushExits ==
    [{"add", "diff", "changed", "commit", "push", "push_u"} -> BOOLEAN]

\* a restart of the server: ensureDataStructure (data.ts:19-34) makes data/
\* when there is none
Restart ==
    /\ repo.data = NoData
    /\ repo.clones < MaxClones
    /\ repo' = [repo EXCEPT !.data = [kind |-> "dir",
                                      content |-> repo.clones + 1],
                            !.clones = repo.clones + 1]
    /\ res' = [op |-> "start", status |-> 0]
    /\ UNCHANGED <<pendingProblemsData, pendingContestData, pendingImportData,
                   inflight, problems, contests, uuid, now, solutions>>

\* no store call has read its file without having written it
Conns == {1, 2}
Idle == [c \in Conns |-> NULL]

-----------------------------------------------------------------------------
(* Specifications *)

\* the server after start-up: nothing staged, data/ freshly initialised
Init ==
    /\ pendingProblemsData = NULL
    /\ pendingContestData = NULL
    /\ pendingImportData = NULL
    /\ solutions = {}
    /\ repo = StartRepo
    /\ inflight = Idle
    /\ problems = <<>>
    /\ contests = <<>>
    /\ uuid = 0
    /\ now = 0
    /\ res = [op |-> "start", status |-> 0]

\* the requests that submit, merge, read and clear staged data, the contest
\* snapshots being drawn from `contestBodies'
Requests(contestBodies) ==
    \/ \E body \in ProblemsBodies : ImportProblems(body)
    \/ \E body \in StandingsBodies : ImportStandings(body)
    \/ GetPendingProblems
    \/ ClearPendingProblems
    \/ \E body \in contestBodies : ImportContest(body)
    \/ GetPendingImport
    \/ ClearPendingImport

\* the staging area during a contest
NextStaging == Requests(EarlyContestBodies)

SpecStaging == Init /\ [][NextStaging]_vars

\* the two confirm requests
NextConfirm ==
    \/ \E fails \in SUBSET (1..MaxProblems) : ConfirmImportProblems(fails)
    \/ \E contestFails \in BOOLEAN, fails \in SUBSET (1..MaxProblems) :
          ConfirmImportContest(contestFails, fails)

Next == Requests(ContestBodies) \/ NextConfirm

Spec == Init /\ [][Next]_vars

\* batches the staging area can hold at the end of a contest: a valid
\* submission, with the statistics of one standings merge or of none
StagedBatches ==
    { [StagedBatch(body) EXCEPT !.problems = MergeStats(@, stats)] :
        body \in {b \in ProblemsBodies : ~ProblemsBodyInvalid(b)},
        stats \in {st \in StatsMaps :
                     \A l \in DOMAIN st : st[l].pass_count = Num(5)} }

\* the snapshots the staging area can hold
StagedContests == {ContestDataOf(body) : body \in ContestBodies}

\* a problem entered by hand through POST /api/problems before the import:
\* stored as sent, not normalized
ManualProblem ==
    [title |-> "Old", solved |-> TRUE, unsolved_stage |-> STAGE_NO_IDEA,
     unsolved_custom_label |-> Str(<<"w", "i", "p">>), pass_count |-> JSNULL]

\* the server with data staged by the scrapes, about to be committed
InitStaged ==
    /\ pendingProblemsData \in StagedBatches \cup {NULL}
    /\ pendingContestData \in StagedContests \cup {NULL}
    /\ pendingImportData = NULL
    /\ solutions = {}
    /\ repo = StartRepo
    /\ inflight = Idle
    /\ \E n \in 0..1 :
          /\ problems = IF n = 0 THEN <<>>
                        ELSE createProblem(<<>>, ManualProblem, 1, 0)
          /\ uuid = n
          /\ now = n
    /\ contests = <<>>
    /\ res = [op |-> "start", status |-> 0]

\* confirm or discard what is staged
NextCommit ==
    \/ NextConfirm
    \/ ClearPendingProblems
    \/ ClearPendingImport

SpecConfirm == InitStaged /\ [][NextCommit]_vars

-----------------------------------------------------------------------------
(* Claims about the staging area, under SpecStaging *)

\* C1: a standings submission is accepted only when a batch is staged and its
\* contestId is the submitted one; a submission that is not accepted leaves
\* the staged batch exactly as it was.
C1_StandingsOnlyForStagedContest ==
    [][res'.op = "import_standings" =>
          /\ res'.status = 200 =>
                /\ pendingProblemsData # NULL
                /\ pendingProblemsData.contestId = res'.contestId
          /\ res'.status # 200 => pendingProblemsData' = pendingProblemsData]_vars

\* a standings submission for another contest than the staged one was rejected
C1_Witness ==
    /\ res.op = "import_standings"
    /\ res.status = 400
    /\ res.error = "contest_id_mismatch"
    /\ pendingProblemsData # NULL

\* C2: an accepted merge overwrites pass_count and attempt_count of exactly
\* the staged problems whose letter is a key of stats, with the values of
\* stats; every other field, the number and the order of the staged problems
\* and the batch's contestId and source stay as they were.
C2_MergeOverwritesMatchingLetters ==
    [][\A body \in StandingsBodies :
          (res'.op = "import_standings" /\ res'.status = 200
              /\ ImportStandings(body)) =>
          LET old == pendingProblemsData.problems
              new == pendingProblemsData'.problems
          IN  /\ pendingProblemsData'.contestId = pendingProblemsData.contestId
              /\ pendingProblemsData'.source = pendingProblemsData.source
              /\ Len(new) = Len(old)
              /\ \A i \in 1..Len(old) :
                    /\ new[i].letter = old[i].letter
                    /\ new[i].title = old[i].title
                    /\ new[i].solved = old[i].solved
                    /\ new[i].unsolved_stage = old[i].unsolved_stage
                    /\ new[i].unsolved_custom_label = old[i].unsolved_custom_label
                    /\ IF old[i].letter \in DOMAIN body.stats
                       THEN /\ new[i].pass_count =
                                   body.stats[old[i].letter].pass_count
                            /\ new[i].attempt_count =
                                   body.stats[old[i].letter].attempt_count
                       ELSE /\ new[i].pass_count = old[i].pass_count
                            /\ new[i].attempt_count = old[i].attempt_count]_vars

\* a merge was accepted that reached some staged problems and not others
C2_Witness ==
    /\ res.op = "import_standings"
    /\ res.status = 200
    /\ 0 < res.mergedCount
    /\ res.mergedCount < res.totalCount

\* C7: last submission wins.  A valid problem-batch submission makes the
\* staged batch exactly the submitted one, whatever was staged before; until
\* the next submission or clear the batch changes only by an accepted merge,
\* and then only in its counts.  The pending contest snapshot is exactly the
\* last submitted one.
C7_LastSubmissionWins ==
    [][/\ \A body \in ProblemsBodies :
             (res'.op = "import_problems" /\ res'.status = 200
                 /\ ImportProblems(body)) =>
             pendingProblemsData' =
                 [contestId |-> body.contestId, source |-> body.source,
                  problems |-> body.problems]
       /\ (res'.op \notin {"import_problems", "import_standings",
                          "clear_pending_problems"}) =>
             pendingProblemsData' = pendingProblemsData
       /\ (res'.op = "import_standings" /\ pendingProblemsData # NULL) =>
             /\ pendingProblemsData' # NULL
             /\ pendingProblemsData'.contestId = pendingProblemsData.contestId
             /\ Len(pendingProblemsData'.problems) =
                   Len(pendingProblemsData.problems)
             /\ \A i \in 1..Len(pendingProblemsData.problems) :
                   [pendingProblemsData'.problems[i] EXCEPT
                       !.pass_count = JSNULL, !.attempt_count = JSNULL] =
                   [pendingProblemsData.problems[i] EXCEPT
                       !.pass_count = JSNULL, !.attempt_count = JSNULL]
       /\ \A body \in ContestBodies :
             (res'.op = "import_contest" /\ ImportContest(body)) =>
             pendingContestData' =
                 IF "data" \in body.fields /\ body.data # <<>>
                 THEN body.data[1] ELSE body
       /\ (res'.op \notin {"import_contest", "clear_pending_import"}) =>
             pendingContestData' = pendingContestData]_vars

\* a batch for contest 999 replaced the batch staged for contest 123
C7_Witness ==
    /\ res.op = "import_problems"
    /\ res.status = 200
    /\ res.replaced = "123"
    /\ pendingProblemsData.contestId = "999"

\* C8: a problem-batch submission without contestId, without problems or with
\* an empty problems list is answered 400 and leaves the staged batch, merged
\* statistics included, and the pending contest snapshot as they were.
C8_InvalidBatchRejected ==
    [][/\ \A body \in ProblemsBodies :
             (/\ res'.op = "import_problems"
              /\ ImportProblems(body)
              /\ \/ "contestId" \notin body.fields
                 \/ "problems" \notin body.fields
                 \/ body.problems = <<>>) =>
             res'.status = 400
       /\ (res'.op = "import_problems" /\ res'.status = 400) =>
             /\ pendingProblemsData' = pendingProblemsData
             /\ pendingContestData' = pendingContestData]_vars

\* an invalid submission was rejected while a batch with merged statistics
\* and a contest snapshot were staged
C8_Witness ==
    /\ res.op = "import_problems"
    /\ res.status = 400
    /\ pendingProblemsData # NULL
    /\ \E i \in 1..Len(pendingProblemsData.problems) :
          pendingProblemsData.problems[i].pass_count # JSNULL
    /\ pendingContestData # NULL

\* C9: a contest-snapshot submission whose payload lacks name or problems is
\* answered with a validation failure and leaves the pending snapshot as it
\* was.
C9_MalformedContestRejected ==
    [][\A body \in ContestBodies :
          (/\ res'.op = "import_contest"
           /\ ImportContest(body)
           /\ LET payload == IF "data" \in body.fields /\ body.data # <<>>
                             THEN body.data[1] ELSE body
              IN  \/ "name" \notin payload.fields
                  \/ "problems" \notin payload.fields) =>
          /\ res'.status = 400
          /\ pendingContestData' = pendingContestData]_vars

\* the requests of the earlier server
NextLegacy ==
    \/ \E body \in EarlyContestBodies : LegacyImportContest(body)
    \/ LegacyGetPendingImport

\* both servers of the repository, each with its own staging state
SpecReads == Init /\ [][NextStaging \/ NextLegacy]_vars

-----------------------------------------------------------------------------
(* Claims about confirm, under SpecConfirm.  After a confirm, res.staged and *)
(* res.snapshot are the two slots as the handler found them and res.failed   *)
(* the items whose createProblem threw; item i drew the id IdOfItem(i).       *)

IdOfItem(i) == uuid - Len(res.staged.problems) + i

\* C3: in the combined confirm every staged problem that is created is
\* created with its status backfilled from the snapshot's entry of its
\* letter: ac gives solved and no stage, attempted gives unsolved and the
\* stage "approach known, not implemented", and unsubmitted, no entry for
\* the letter or no snapshot leave solved and stage as staged.
C3_StatusBackfilled ==
    (res.op = "confirm_import_contest" /\ res.status = 200 /\ res.staged # NULL) =>
        \A i \in (1..Len(res.staged.problems)) \ res.failed :
            LET p == res.staged.problems[i]
                entries ==
                    IF res.snapshot = NULL THEN {}
                    ELSE IF "problems" \notin res.snapshot.fields THEN {}
                    ELSE {e \in Range(res.snapshot.problems) : e.letter = p.letter}
            IN  \E r \in Range(problems) :
                    /\ r.id = IdOfItem(i)
                    /\ r.letter = p.letter
                    /\ r.title = p.title
                    /\ IF \E e \in entries : e.my_status = "ac"
                       THEN r.solved = TRUE /\ r.unsolved_stage = NULLSTR
                       ELSE IF \E e \in entries : e.my_status = "attempted"
                       THEN r.solved = FALSE /\ r.unsolved_stage = STAGE_KNOWN
                       ELSE /\ r.solved = p.solved
                            /\ r.unsolved_stage = p.unsolved_stage

\* a problem the batch marked unsolved was committed as solved, its letter
\* being ac in the snapshot
C3_Witness ==
    /\ res.op = "confirm_import_contest"
    /\ res.status = 200
    /\ res.staged # NULL
    /\ res.snapshot # NULL
    /\ "problems" \in res.snapshot.fields
    /\ \E i \in (1..Len(res.staged.problems)) \ res.failed :
          /\ res.staged.problems[i].solved = FALSE
          /\ \E e \in Range(res.snapshot.problems) :
                e.letter = res.staged.problems[i].letter /\ e.my_status = "ac"
          /\ \E r \in Range(problems) : r.id = IdOfItem(i) /\ r.solved

\* C4: in a confirm each staged problem is created independently.  The items
\* whose creation fails are exactly the ones missing from the collection
\* afterwards, every other item is in it, failCount is the number that
\* failed, successCount the number created, and their sum the number staged.
C4_ItemsCreatedIndependently ==
    (/\ res.op \in {"confirm_import_problems", "confirm_import_contest"}
     /\ res.status = 200
     /\ res.staged # NULL) =>
        LET n == Len(res.staged.problems) IN
        /\ res.successCount + res.failCount = n
        /\ res.failCount = Cardinality(res.failed)
        /\ \A i \in 1..n :
              IF i \in res.failed
              THEN \A r \in Range(problems) : r.id # IdOfItem(i)
              ELSE \E r \in Range(problems) :
                      /\ r.id = IdOfItem(i)
                      /\ r.title = res.staged.problems[i].title
                      /\ r.letter = res.staged.problems[i].letter
        /\ res.successCount =
              Cardinality({k \in 1..Len(problems) : problems[k].id > uuid - n})

\* the first staged problem failed and a later one was created all the same
C4_Witness ==
    /\ res.op = "confirm_import_problems"
    /\ res.status = 200
    /\ 1 \in res.failed
    /\ res.successCount >= 1
    /\ \E r \in Range(problems) : r.id = IdOfItem(2)

\* C5: an explicit confirm with a batch staged hands every staged problem to
\* create, each one created being appended to the collection as staged, and
\* leaves no pending batch; an explicit clear leaves no pending batch and
\* creates no record.
C5_ConfirmCommitsClearDiscards ==
    [][/\ (res'.op = "confirm_import_problems" /\ res'.status = 200) =>
             /\ pendingProblemsData # NULL
             /\ pendingProblemsData' = NULL
             /\ LET ps == pendingProblemsData.problems
                    created == (1..Len(ps)) \ res'.failed
                IN  /\ uuid' = uuid + Len(ps)
                    /\ Len(problems') = Len(problems) + Cardinality(created)
                    /\ \A i \in created :
                          \E k \in (Len(problems) + 1)..Len(problems') :
                              /\ problems'[k].id = uuid + i
                              /\ \A f \in DOMAIN ps[i] : problems'[k][f] = ps[i][f]
       /\ res'.op = "clear_pending_problems" =>
             /\ pendingProblemsData' = NULL
             /\ problems' = problems
             /\ contests' = contests
             /\ uuid' = uuid]_vars

\* a confirm committed a whole batch of two or more problems
C5_Witness ==
    /\ res.op = "confirm_import_problems"
    /\ res.status = 200
    /\ res.failed = {}
    /\ Len(res.staged.problems) >= 2
    /\ pendingProblemsData = NULL
    /\ Len(problems) >= 2

\* C6: in the combined confirm each half is attempted and reported whatever
\* the other half's outcome, and each half's staged state is cleared when,
\* and only when, its own commit succeeded.
C6_HalvesClearedOnlyOnSuccess ==
    (res.op = "confirm_import_contest" /\ res.status = 200) =>
        /\ res.snapshot # NULL =>
              /\ res.contest \in {"success", "failure"}
              /\ (pendingContestData = NULL) <=> (res.contest = "success")
        /\ res.staged # NULL =>
              /\ res.successCount + res.failCount = Len(res.staged.problems)
              /\ (pendingProblemsData = NULL) <=> (res.failCount = 0)

-----------------------------------------------------------------------------
(* Claim about reads, under SpecReads *)

\* C10: reading pending import state never consumes it: a GET of the pending
\* contest snapshot or of the pending problem batch leaves the slots as they
\* were.
C10_ReadsDoNotConsume ==
    [][res'.op \in {"get_pending_import", "get_pending_problems"} =>
          /\ pendingProblemsData' = pendingProblemsData
          /\ pendingContestData' = pendingContestData
          /\ pendingImportData' = pendingImportData]_vars

-----------------------------------------------------------------------------
(* The collection routes *)

\* the problem routes
NextProblems ==
    \/ \E data \in ProblemPayloads : CreateProblem(data)
    \/ \E id \in TargetIds, data \in ProblemUpdates : UpdateProblem(id, data)
    \/ \E id \in TargetIds : DeleteProblem(id)
    \/ \E id \in TargetIds : WriteSolution(id, <<"#">>)
    \/ GetProblems

SpecProblems == Init /\ [][NextProblems]_vars

\* the contest routes
NextContests ==
    \/ \E data \in ContestPayloads : CreateContest(data)
    \/ \E id \in TargetIds, data \in ContestUpdates : UpdateContest(id, data)
    \/ \E id \in TargetIds : DeleteContest(id)
    \/ GetContests

SpecContests == Init /\ [][NextContests]_vars

\* the server with a problem and a contest stored, or with a collection
\* still empty
InitStored ==
    /\ pendingProblemsData = NULL
    /\ pendingContestData = NULL
    /\ pendingImportData = NULL
    /\ solutions = {}
    /\ repo = StartRepo
    /\ inflight = Idle
    /\ problems \in {<<>>} \cup
                    {createProblem(<<>>, data, 1, 0) :
                        data \in {d \in ProblemPayloads :
                                     "unsolved_stage" \in DOMAIN d}}
    /\ contests \in {<<>>} \cup
                    {createContest(<<>>, data, 2, 0) :
                        data \in {d \in ContestPayloads :
                                     d.total_problems \in {Num(1), Num(3)}}}
    /\ uuid = 2
    /\ now = 1
    /\ res = [op |-> "start", status |-> 0]

\* updates and deletes of both collections, and solution files being written
NextStored ==
    \/ \E id \in TargetIds, data \in ProblemUpdates : UpdateProblem(id, data)
    \/ \E id \in TargetIds : DeleteProblem(id)
    \/ \E id \in TargetIds : WriteSolution(id, <<"#">>)
    \/ \E id \in TargetIds, data \in ContestUpdates : UpdateContest(id, data)
    \/ \E id \in TargetIds : DeleteContest(id)

SpecStored == InitStored /\ [][NextStored]_vars

-----------------------------------------------------------------------------
(* Records of an older or hand-edited problems.json, and their load *)

\* a key that is absent, or present with one of the values
Field(key, values) == {<<>>} \cup {key :> v : v \in values}

\* raw records: solved or a legacy status, stages in and outside the
\* enumeration, blank and padded labels, counts as numbers and as text, the
\* legacy owner, a stored has_solution
RawRecords ==
    { [id |-> 1, title |-> "T"] @@ solved @@ status @@ stage @@ label @@
      pass @@ owner @@ assignee @@ has :
        solved \in Field("solved", BOOLEAN),
        status \in Field("status", {Str(<<"D", "o", "n", "e">>),
                                    Str(<<"D", "O", "N", "E">>),
                                    Str(<<"t", "o", "d", "o">>),
                                    Str(<<" ", "d", "o", "n", "e">>),
                                    JSNULL}),
        stage \in Field("unsolved_stage", {STAGE_KNOWN, "bogus", NULLSTR}),
        label \in Field("unsolved_custom_label",
                        {JSNULL, Str(<<" ", " ">>), Str(<<" ", "w", "i", "p", " ">>)}),
        pass \in Field("pass_count", {JSNULL, Num(7), Str(<<"1", "2">>),
                                      Str(<<"a", "b", "c">>),
                                      Str(<<" ", "4", "x">>)}),
        owner \in Field("owner", {Str(<<"b", "o", "b", " ">>)}),
        assignee \in Field("assignee", {JSNULL, Str(<<" ", " ", "a">>)}),
        has \in Field("has_solution", {TRUE}) }

\* the server started on such a file
InitRaw ==
    /\ pendingProblemsData = NULL
    /\ pendingContestData = NULL
    /\ pendingImportData = NULL
    /\ solutions = {}
    /\ repo = StartRepo
    /\ inflight = Idle
    /\ problems \in {<<rec>> : rec \in RawRecords}
    /\ contests = <<>>
    /\ uuid = 1
    /\ now = 1
    /\ res = [op |-> "start", status |-> 0]

\* the file is read, and a solution may be written for its record
NextNormalize ==
    \/ GetProblems
    \/ WriteSolution(1, <<"#">>)

SpecNormalize == InitRaw /\ [][NextNormalize]_vars

-----------------------------------------------------------------------------
(* Claims about the record normalizer, under SpecNormalize.  After a GET of  *)
(* the problems, problems[i] is the raw record of the file and res.data[i]   *)
(* the record normalizeRecord made of it.                                    *)

\* the spellings of "done" in upper and lower case
DoneSpellings ==
    {Str(<<d, o, n, e>>) : d \in {"d", "D"}, o \in {"o", "O"},
                           n \in {"n", "N"}, e \in {"e", "E"}}

\* the raw record says solved, directly or through its legacy status
RawSolved(raw) ==
    IF "solved" \in DOMAIN raw THEN raw.solved
    ELSE "status" \in DOMAIN raw /\ raw.status \in DoneSpellings

\* C14: a raw record whose solved is true, supplied directly or derived from
\* a legacy status, is normalized to a record with unsolved_stage null and
\* unsolved_custom_label null, whatever the raw record holds in those fields.
C14_SolvedClearsStageAndLabel ==
    res.op = "get_problems" =>
        \A i \in 1..Len(problems) :
            RawSolved(problems[i]) =>
                /\ res.data[i].solved = TRUE
                /\ res.data[i].unsolved_stage = NULLSTR
                /\ res.data[i].unsolved_custom_label = JSNULL

\* a record solved through status "Done" that carried a valid stage and a
\* label was normalized
C14_Witness ==
    /\ res.op = "get_problems"
    /\ "solved" \notin DOMAIN problems[1]
    /\ "status" \in DOMAIN problems[1]
    /\ problems[1].status = Str(<<"D", "o", "n", "e">>)
    /\ "unsolved_stage" \in DOMAIN problems[1]
    /\ problems[1].unsolved_stage = STAGE_KNOWN
    /\ "unsolved_custom_label" \in DOMAIN problems[1]
    /\ problems[1].unsolved_custom_label = Str(<<" ", "w", "i", "p", " ">>)
    /\ res.data[1].solved

\* C15: the normalizer is idempotent: normalizing a normalized record gives
\* the same record, has_solution aside.
C15_NormalizeIdempotent ==
    res.op = "get_problems" =>
        \A i \in 1..Len(res.data) :
            normalizeRecord(res.data[i]) =
                [k \in DOMAIN res.data[i] \ {"has_solution"} |-> res.data[i][k]]

\* a record with owner, status, a stage outside the enumeration, a blank
\* label, a padded assignee and an unparseable pass_count was normalized
C15_Witness ==
    /\ res.op = "get_problems"
    /\ {"owner", "status", "unsolved_stage", "unsolved_custom_label",
        "pass_count", "assignee", "has_solution"} \subseteq DOMAIN problems[1]
    /\ problems[1].unsolved_stage = "bogus"
    /\ problems[1].unsolved_custom_label = Str(<<" ", " ">>)
    /\ problems[1].pass_count = Str(<<"a", "b", "c">>)
    /\ problems[1].assignee = Str(<<" ", " ", "a">>)
    /\ res.data[1].assignee = Str(<<"a">>)

\* C16: a raw record without a solved field is normalized to solved = true
\* exactly when its status spells "done" in any mix of cases, and to false
\* when the status is absent or anything else; a raw record with a solved
\* field keeps it whatever its status.
C16_SolvedFromLegacyStatus ==
    res.op = "get_problems" =>
        \A i \in 1..Len(problems) :
            IF "solved" \in DOMAIN problems[i]
            THEN res.data[i].solved = problems[i].solved
            ELSE res.data[i].solved =
                    ("status" \in DOMAIN problems[i]
                        /\ problems[i].status \in DoneSpellings)

\* a record without solved and with status "DONE" was normalized to solved
C16_Witness ==
    /\ res.op = "get_problems"
    /\ "solved" \notin DOMAIN problems[1]
    /\ "status" \in DOMAIN problems[1]
    /\ problems[1].status = Str(<<"D", "O", "N", "E">>)
    /\ res.data[1].solved = TRUE

\* C17: normalization of pass_count never raises; a present value that
\* parses becomes that integer and a present value that does not parse
\* becomes null.
C17_PassCountIntegerOrNull ==
    res.op = "get_problems" =>
        \A i \in 1..Len(problems) :
            ("pass_count" \in DOMAIN problems[i]
                /\ problems[i].pass_count # JSNULL) =>
                /\ "pass_count" \in DOMAIN res.data[i]
                /\ res.data[i].pass_count.t \in {"num", "null"}

\* C27: every record a load returns has an unsolved_stage that is null or
\* one of the three stages of the enumeration; a stored stage outside the
\* enumeration comes back as null.
C27_StageInEnumerationOrNull ==
    res.op = "get_problems" =>
        \A i \in 1..Len(res.data) :
            /\ res.data[i].unsolved_stage \in VALID_UNSOLVED_STAGES \cup {NULLSTR}
            /\ ("unsolved_stage" \in DOMAIN problems[i]
                   /\ problems[i].unsolved_stage \notin VALID_UNSOLVED_STAGES)
                  => res.data[i].unsolved_stage = NULLSTR

\* an unsolved record that stored a stage outside the enumeration was loaded
C27_Witness ==
    /\ res.op = "get_problems"
    /\ "unsolved_stage" \in DOMAIN problems[1]
    /\ problems[1].unsolved_stage = "bogus"
    /\ ~res.data[1].solved
    /\ res.data[1].unsolved_stage = NULLSTR

-----------------------------------------------------------------------------
(* Claims about contests, under SpecContests *)

\* the contests a create, update or read answered with
AnsweredContests ==
    IF res.op \in {"create_contest", "update_contest"} /\ res.status # 404
    THEN {res.data}
    ELSE IF res.op = "get_contests" THEN Range(res.data)
    ELSE {}

\* C11: after any contest creates and updates every contest of the
\* collection, and every contest answered, has as many problems as its
\* total_problems says, the i-th of them bearing the i-th letter of A..Z.
C11_ProblemsMatchTotal ==
    \A c \in Range(contests) \cup AnsweredContests :
        /\ c.total_problems.t = "num"
        /\ Len(c.problems) = c.total_problems.n
        /\ \A i \in 1..Len(c.problems) : c.problems[i].letter = LETTERS[i]

\* C12: every contest written or answered by create, update or load has a
\* total_problems that is an integer from 1 to 26; a create with a value
\* below 1 or one that is no integer stores 1, with a value above 26 stores 26.
C12_TotalProblemsClamped ==
    /\ \A c \in Range(contests) \cup AnsweredContests :
          /\ c.total_problems.t = "num"
          /\ c.total_problems.n \in 1..26
    /\ res.op = "create_contest" =>
          LET given == res.body.total_problems IN
          /\ (given.t = "num" /\ given.n < 1) => res.data.total_problems = Num(1)
          /\ (given.t = "num" /\ given.n > 26) => res.data.total_problems = Num(26)
          /\ (given.t = "str" /\ \A i \in 1..Len(given.s) : ~IsDigit(given.s[i]))
                => res.data.total_problems = Num(1)

-----------------------------------------------------------------------------
(* Claims about problems, under SpecProblems *)

\* the problems a create, update or read answered with
AnsweredProblems ==
    IF res.op \in {"create_problem", "update_problem"} /\ res.status # 404
    THEN {res.data}
    ELSE IF res.op = "get_problems" THEN Range(res.data)
    ELSE {}

\* C13: every problem of the collection, as persisted and as answered by
\* create, update and load, that is solved has unsolved_stage null and
\* unsolved_custom_label null.
C13_SolvedHasNoStage ==
    \A r \in Range(problems) \cup AnsweredProblems :
        ("solved" \in DOMAIN r /\ r.solved) =>
            /\ "unsolved_stage" \in DOMAIN r => r.unsolved_stage = NULLSTR
            /\ IsNullish(Get(r, "unsolved_custom_label"))

\* C18: a create stores a record whose id is the one the store generated and
\* whose created_at and updated_at are the time of the create, whatever the
\* payload holds; the ids of the collection are pairwise distinct.
C18_CreateAssignsIdAndTimes ==
    [][res'.op = "create_problem" =>
          LET created == problems'[Len(problems')] IN
          /\ created.id = uuid'
          /\ created.created_at = now
          /\ created.updated_at = now
          /\ \A i, j \in 1..Len(problems') :
                i # j => problems'[i].id # problems'[j].id]_vars

\* C19: an update of an existing problem changes only the fields provided
\* and updated_at: id and created_at of the record stay, every other record
\* stays as it was, and so does the size of the collection.
C19_UpdateChangesOnlyProvided ==
    [][(res'.op = "update_problem" /\ res'.status = 200) =>
          /\ Len(problems') = Len(problems)
          /\ \A i \in 1..Len(problems) :
                IF i = res'.index
                THEN /\ problems'[i].id = problems[i].id
                     /\ problems'[i].created_at = problems[i].created_at
                     /\ \A k \in DOMAIN problems[i] \
                                 (DOMAIN res'.body \cup {"updated_at"}) :
                           k \in DOMAIN problems'[i]
                              /\ problems'[i][k] = problems[i][k]
                ELSE problems'[i] = problems[i]]_vars

-----------------------------------------------------------------------------
(* Claim about requests naming an id the collection has not, under          *)
(* SpecStored                                                                *)

\* the ids of the records of a collection
IdsOf(file) == {file[i].id : i \in 1..Len(file)}

\* C20: an update or a delete of an id that is not in the collection is
\* answered not found and changes nothing: the records of both collections
\* stay as they were and no solution file is removed.
C20_NotFoundMutatesNothing ==
    [][/\ (res'.op \in {"update_problem", "delete_problem"}
              /\ res'.id \notin IdsOf(problems)) => res'.status = 404
       /\ (res'.op \in {"update_contest", "delete_contest"}
              /\ res'.id \notin IdsOf(contests)) => res'.status = 404
       /\ (res'.op \in {"update_problem", "delete_problem", "update_contest",
                       "delete_contest"} /\ res'.status = 404) =>
             /\ problems' = problems
             /\ contests' = contests
             /\ solutions' = solutions]_vars

\* a delete named an id the collection has not while a solution file of
\* that id existed, and the file is still there
C20_Witness ==
    /\ res.op = "delete_problem"
    /\ res.status = 404
    /\ res.id \in solutions
    /\ problems # <<>>

-----------------------------------------------------------------------------
(* Version control requests *)

\* a directory left by earlier work
OldData == [kind |-> "dir", content |-> -1]

\* the server with data/ absent, plain, or a clone of either remote, and with
\* or without an earlier backup
InitGit ==
    /\ pendingProblemsData = NULL
    /\ pendingContestData = NULL
    /\ pendingImportData = NULL
    /\ solutions = {}
    /\ inflight = Idle
    /\ problems = <<>>
    /\ contests = <<>>
    /\ uuid = 0
    /\ now = 0
    /\ \E data \in {NoData, [kind |-> "dir", content |-> 0]} \cup
                   {[kind |-> "repo", remote |-> u, content |-> 0] :
                        u \in {<<"a">>, <<"b">>}},
          backups \in {<<>>, 0 :> OldData} :
          repo = [data |-> data, backups |-> backups, config |-> NoConfig,
                  clones |-> 0]
    /\ res = [op |-> "start", status |-> 0]

NextGit ==
    \/ \E repoUrl \in RepoUrls, branch \in Branches, ok1, ok2 \in BOOLEAN :
          GitClone(repoUrl, branch, ok1, ok2)
    \/ \E repoUrl \in RepoUrls, branch \in Branches, ok1, ok2 \in BOOLEAN :
          GitBackupReclone(repoUrl, branch, ok1, ok2)
    \/ \E ok \in BOOLEAN : GitPull(ok)
    \/ \E oks \in PushExits : GitPush(oks)
    \/ Restart

SpecGit == InitGit /\ [][NextGit]_vars

GitOps == {"git_clone", "git_backup_reclone", "git_pull", "git_push"}

C28_CloneKeepsExistingData ==
    [][res'.op \in {"git_clone", "git_backup_reclone"} =>
          /\ \A n \in DOMAIN repo.backups :
                n \in DOMAIN repo'.backups
                   /\ repo'.backups[n] = repo.backups[n]
          /\ (repo.data # NoData /\ repo'.data # repo.data) =>
                \E n \in DOMAIN repo'.backups \ DOMAIN repo.backups :
                   /\ repo'.backups[n] = repo.data
                   /\ \A m \in 0..(n - 1) : m \in DOMAIN repo.backups
          /\ (res'.op = "git_clone" /\ isDataGitRepo(repo)
                 /\ trim(res'.url) # <<>>
                 /\ getRemoteUrl(repo) # trim(res'.url)) =>
                repo' = repo]_vars

\* a clone found a plain data/ next to an earlier data.backup and moved it to
\* data.backup.1
C28_Witness ==
    /\ res.op = "git_clone"
    /\ res.outcome = "cloned"
    /\ DOMAIN repo.backups = {0, 1}
    /\ repo.backups[0] = OldData
    /\ repo.backups[1] = [kind |-> "dir", content |-> 0]
    /\ repo.data.kind = "repo"

-----------------------------------------------------------------------------
(* Claims about committing twice, under SpecConfirm, and about the two       *)
(* slots, under SpecSlots                                                    *)

ConfirmOps == {"confirm_import_problems", "confirm_import_contest"}

\* C29: a staged batch is committed at most once.  A confirm that finds a
\* batch leaves none staged; a confirm that finds none creates no problem
\* record, and is rejected without touching the collections when it is the
\* problems-only confirm or when no snapshot is pending either.
C29_BatchCommittedAtMostOnce ==
    [][res'.op \in ConfirmOps =>
          /\ pendingProblemsData # NULL => pendingProblemsData' = NULL
          /\ pendingProblemsData = NULL =>
                /\ problems' = problems
                /\ (res'.op = "confirm_import_problems"
                       \/ pendingContestData = NULL) =>
                      /\ res'.status = 400
                      /\ contests' = contests]_vars

\* a problems-only confirm was rejected after an earlier confirm had
\* committed the batch
C29_Witness ==
    /\ res.op = "confirm_import_problems"
    /\ res.status = 400
    /\ pendingProblemsData = NULL
    /\ Len(problems) >= 2

\* the staging requests together with the problems-only confirm
NextSlots ==
    \/ Requests(EarlyContestBodies)
    \/ \E fails \in SUBSET (1..MaxProblems) : ConfirmImportProblems(fails)

\* the server during a contest, after earlier work has drawn ids
InitSlots ==
    /\ pendingProblemsData = NULL
    /\ pendingContestData = NULL
    /\ pendingImportData = NULL
    /\ solutions = {}
    /\ repo = StartRepo
    /\ inflight = Idle
    /\ problems = <<>>
    /\ contests = <<>>
    /\ uuid = MaxUuid - 1
    /\ now = 0
    /\ res = [op |-> "start", status |-> 0]

SpecSlots == InitSlots /\ [][NextSlots]_vars

ProblemSlotOps ==
    {"import_problems", "import_standings", "get_pending_problems",
     "clear_pending_problems", "confirm_import_problems"}

ContestSlotOps == {"import_contest", "get_pending_import", "clear_pending_import"}

\* C30: the requests on the problem batch (submit, merge, read, clear,
\* problems-only confirm) leave the pending contest snapshot as it was, the
\* requests on the snapshot (submit, read, clear) leave the staged batch as
\* it was, and none of them but the confirm changes the two collections.
C30_SlotsIndependent ==
    [][/\ res'.op \in ProblemSlotOps => pendingContestData' = pendingContestData
       /\ res'.op \in ContestSlotOps => pendingProblemsData' = pendingProblemsData
       /\ res'.op \in (ProblemSlotOps \cup ContestSlotOps)
                         \ {"confirm_import_problems"} =>
             /\ problems' = problems
             /\ contests' = contests]_vars

\* the batch was committed by the problems-only confirm while a snapshot was
\* pending, and the snapshot is still pending
C30_Witness ==
    /\ res.op = "confirm_import_problems"
    /\ res.status = 200
    /\ pendingContestData # NULL
    /\ problems # <<>>

-----------------------------------------------------------------------------
(* Problems and their solution files *)

\* POST /api/problems bodies that carry a has_solution or an id of their own
SolutionPayloads ==
    { [title |-> "P", has_solution |-> TRUE],
      [title |-> "P", id |-> 1] }

\* PUT /api/problems/:id bodies of the same kinds
SolutionUpdates ==
    { [has_solution |-> TRUE],
      [id |-> 9] }

\* the server with one problem stored, with or without its solution file
InitSolutions ==
    /\ pendingProblemsData = NULL
    /\ pendingContestData = NULL
    /\ pendingImportData = NULL
    /\ repo = StartRepo
    /\ inflight = Idle
    /\ problems \in {createProblem(<<>>, data, 1, 0) : data \in FormData}
    /\ solutions \in {{}, {1}}
    /\ contests = <<>>
    /\ uuid = 1
    /\ now = 1
    /\ res = [op |-> "start", status |-> 0]

\* the problem routes, the solution routes and the problem form
NextSolutions ==
    \/ \E data \in SolutionPayloads : CreateProblem(data)
    \/ \E id \in TargetIds, data \in SolutionUpdates : UpdateProblem(id, data)
    \/ \E id \in TargetIds : DeleteProblem(id)
    \/ GetProblems
    \/ \E id \in TargetIds, content \in SolutionTexts : WriteSolution(id, content)
    \/ \E id \in TargetIds : DeleteSolution(id)
    \/ \E id \in TargetIds, data \in FormData, solution \in SolutionTexts :
          SubmitEdit(id, data, solution)

SpecSolutions == InitSolutions /\ [][NextSolutions]_vars

\* the records of a file as a load normalizes them, has_solution aside
Normalized(file) == [i \in 1..Len(file) |-> normalizeRecord(file[i])]

C22_HasSolutionDerived ==
    /\ \A i \in 1..Len(problems) : "has_solution" \notin DOMAIN problems[i]
    /\ \A r \in AnsweredProblems :
          /\ "has_solution" \in DOMAIN r
          /\ r.has_solution = solutionExists(r.id)

\* C23 as stated: a solution written with empty or white-space content does
\* not exist afterwards.
C23_BlankWriteDeletes ==
    (res.op \in {"write_solution", "submit_edit"} /\ res.status = 200
        /\ trim(IF res.op = "write_solution" THEN res.content
                ELSE res.solution) = <<>>) =>
       res.id \notin solutions

\* C23 amended: saving the form of an existing problem with an empty or
\* white-space solution text deletes the solution file, and the problem then
\* loads with has_solution false; a PUT of the solution writes the file
\* whatever its content.
C23_BlankEditDeletes ==
    /\ (res.op = "submit_edit" /\ res.status = 200
           /\ trim(res.solution) = <<>>) =>
          /\ res.id \notin solutions
          /\ \A r \in Range(loadProblems(problems)) :
                r.id = res.id => ~r.has_solution
    /\ res.op = "write_solution" => res.id \in solutions

\* the form of a problem that had a solution was saved with white space
\* only as its solution text
C23_Witness ==
    /\ res.op = "submit_edit"
    /\ res.status = 200
    /\ res.solution = <<" ", "\n">>
    /\ res.had
    /\ res.id \in IdsOf(problems)

-----------------------------------------------------------------------------
(* Collection files that cannot be read *)

\* the server on collection files that a hand edit or a merge left
\* unreadable, or that hold a record
InitCorrupt ==
    /\ pendingProblemsData = NULL
    /\ pendingContestData = NULL
    /\ pendingImportData = NULL
    /\ solutions = {}
    /\ repo = StartRepo
    /\ inflight = Idle
    /\ problems \in {Corrupt} \cup
                    {createProblem(<<>>, data, 1, 0) : data \in FormData}
    /\ contests \in {Corrupt} \cup
                    {createContest(<<>>, data, 2, 0) :
                        data \in {d \in ContestPayloads :
                                     d.total_problems = Num(1)}}
    /\ uuid = 2
    /\ now = 1
    /\ res = [op |-> "start", status |-> 0]

\* the routes of both collections
NextCorrupt ==
    \/ \E data \in FormData : CreateProblem(data)
    \/ \E id \in TargetIds : UpdateProblem(id, [solved |-> TRUE])
    \/ \E id \in TargetIds : DeleteProblem(id)
    \/ GetProblems
    \/ \E data \in {d \in ContestPayloads : d.total_problems = Num(1)} :
          CreateContest(data)
    \/ \E id \in TargetIds : UpdateContest(id, [name |-> "Stage 2"])
    \/ \E id \in TargetIds : DeleteContest(id)
    \/ GetContests

SpecCorrupt == InitCorrupt /\ [][NextCorrupt]_vars

ProblemOps ==
    {"create_problem", "update_problem", "delete_problem", "get_problems"}

ContestOps ==
    {"create_contest", "update_contest", "delete_contest", "get_contests"}

\* C24: a request that finds its collection file unreadable is not answered
\* with an error of the load: the file is rewritten as the empty array and
\* the operation acts on the empty collection, a read answering the empty
\* list, an update or delete answering not found, a create storing its
\* record as the only one.
C24_LoadFailsSoft ==
    [][/\ (problems = Corrupt /\ res'.op \in ProblemOps) =>
             /\ res'.status \in {200, 201, 204, 404}
             /\ problems' = IF res'.op = "create_problem"
                            THEN createProblem(<<>>, res'.body, uuid', now)
                            ELSE <<>>
             /\ res'.op = "get_problems" => res'.data = <<>>
             /\ res'.op \in {"update_problem", "delete_problem"} =>
                   res'.status = 404
       /\ (contests = Corrupt /\ res'.op \in ContestOps) =>
             /\ res'.status \in {200, 201, 204, 404}
             /\ contests' = IF res'.op = "create_contest"
                            THEN createContest(<<>>, res'.body, uuid', now)
                            ELSE <<>>
             /\ res'.op = "get_contests" => res'.data = <<>>
             /\ res'.op \in {"update_contest", "delete_contest"} =>
                   res'.status = 404]_vars

\* the problems were read as the empty list while the contests file is
\* still the unreadable one
C24_Witness ==
    /\ res.op = "get_problems"
    /\ res.data = <<>>
    /\ problems = <<>>
    /\ contests = Corrupt

-----------------------------------------------------------------------------
(* Concurrent requests on the problems collection *)

\* a handler that never keeps the thread: a request is taken while another
\* store call is between its read and its write
handlerRunningNever == FALSE

\* Node runs a handler to its end before it takes the next request: the
\* store calls read and write with readFileSync and writeFileSync and the
\* handlers hold no await, so a store call between its read and its write
\* holds the only thread
handlerRunning == \E c \in Conns : inflight[c] # NULL

\* the write requests of the problems collection
StoreRequests ==
    {[op |-> "create_problem", body |-> data] : data \in SolutionPayloads}
    \cup {[op |-> "update_problem", id |-> id, body |-> data] :
             id \in {1, 2}, data \in SolutionUpdates}
    \cup {[op |-> "delete_problem", id |-> id] : id \in {1, 2}}

\* what a store call makes of the file it has read
stored(req, file, id, time) ==
    CASE req.op = "create_problem" ->
            createProblem(file, req.body, id, time)
      [] req.op = "update_problem" ->
            IF findIndex(loadProblems(file), req.id) = 0
            THEN file
            ELSE updateProblem(file, req.id, req.body, time)
      [] req.op = "delete_problem" ->
            IF findIndex(loadProblems(file), req.id) = 0
            THEN file
            ELSE deleteProblem(file, req.id)

\* the status a store call answers with
answered(req, file) ==
    CASE req.op = "create_problem" -> 201
      [] findIndex(loadProblems(file), req.id) = 0 -> 404
      [] req.op = "update_problem" -> 200
      [] req.op = "delete_problem" -> 204

\* the first line of createProblem, updateProblem, deleteProblem: the
\* request of connection c is taken and its store call reads the file
BeginStore(c, req) ==
    /\ ~handlerRunning
    /\ inflight[c] = NULL
    /\ uuid < MaxUuid
    /\ now < MaxWrites
    /\ inflight' = [inflight EXCEPT
                       ![c] = [req |-> req, file |-> reinitialized(problems)]]
    /\ problems' = reinitialized(problems)
    /\ UNCHANGED <<pendingProblemsData, pendingContestData, pendingImportData,
                   repo, contests, uuid, now, solutions, res>>

\* the rest of the store call: the items it read are changed and saved,
\* and the handler answers
FinishStore(c) ==
    /\ inflight[c] # NULL
    /\ LET req == inflight[c].req
           file == inflight[c].file
           status == answered(req, file)
       IN
       /\ problems' = IF status = 404
                      THEN problems
                      ELSE stored(req, file, uuid + 1, now)
       /\ uuid' = IF status = 201 THEN uuid + 1 ELSE uuid
       /\ now' = IF status \in {200, 201} THEN now + 1 ELSE now
       /\ solutions' = IF status = 204 THEN solutions \ {req.id}
                       ELSE solutions
       /\ res' = [op |-> req.op, status |-> status, conn |-> c]
    /\ inflight' = [inflight EXCEPT ![c] = NULL]
    /\ UNCHANGED <<pendingProblemsData, pendingContestData, pendingImportData,
                   repo, contests>>

NextConcurrent ==
    \/ \E c \in Conns : \E req \in StoreRequests : BeginStore(c, req)
    \/ \E c \in Conns : FinishStore(c)

SpecConcurrent == Init /\ [][NextConcurrent]_vars

\* the ids of the records of a file
idsOf(file) == {file[i].id : i \in 1..Len(file)}

\* C25: store calls on the problems collection are serialized over their
\* read-modify-write span: a call that answers writes its change onto the
\* file as it is when it answers, never onto an older reading, so no
\* acknowledged write is lost; an acknowledged create adds one record to
\* the records stored before it, an update keeps their number and a delete
\* removes the records of its id and no other.
C25_NoAcknowledgedWriteLost ==
    [][\A c \in Conns :
          (inflight[c] # NULL /\ inflight'[c] = NULL) =>
             /\ inflight[c].file = problems
             /\ problems' = IF res'.status = 404
                            THEN problems
                            ELSE stored(inflight[c].req, problems, uuid', now)
             /\ res'.status = 201 => Len(problems') = Len(problems) + 1
             /\ res'.status \in {200, 404} => Len(problems') = Len(problems)
             /\ res'.status = 204 =>
                   idsOf(problems') = idsOf(problems) \ {inflight[c].req.id}]_vars

\* the second connection's create is acknowledged and the file holds its
\* record next to the one created before it
C25_Witness ==
    /\ res.op = "create_problem"
    /\ res.status = 201
    /\ res.conn = 2
    /\ Len(problems) = 2
    /\ inflight = Idle

=============================================================================
